---------------------------- MODULE Spec2Model ----------------------------
(***************************************************************************)
(* The election ledger engine of Tekh-ops/votingsystem: the C engine       *)
(* (src/src/app/app.c with its hash-table indexes, flat-file mirror and    *)
(* selection tree).  Strings are sequences of character codes, files are   *)
(* character streams, and every app_* function is an operator from the     *)
(* engine state (the app_state_t record) and its arguments to the new      *)
(* engine state and the return code.                                       *)
(***************************************************************************)
EXTENDS Integers, Sequences, FiniteSets, TLC

VARIABLES app,      \* the app_state_t object of cli_run
          js,       \* the AppState object of the JavaScript server
          running,  \* which of the two programs runs: "c" or "js"
          requests, \* the request handlers of the JavaScript server in flight
          table,    \* a hash_table_t on its own
          disk,     \* the four files of the C engine's data directory
          counts,   \* tally input: per-candidate vote counts
          tree,     \* selection_tree_t: [leaf_count, tree_size, tree]
          win,      \* result of the last selection_tree_winner (-1: none yet)
          jstree,   \* the SelectionTree object of the script (NoJsTree: none)
          jswin     \* result of the last SelectionTree.winner() (-2: none yet)

vars == <<app, js, running, requests, table, disk, counts, tree, win, jstree, jswin>>
engine_vars == <<app, js, running, requests, table, disk>>
tally_vars == <<counts, tree, win, jstree, jswin>>

(***************************************************************************)
(* Bounds of the model.                                                    *)
(***************************************************************************)
MaxUsers == 2        \* registrations explored
MaxElections == 1    \* elections explored
HalfBits == 3        \* width of half a uint64_t word (32 in the source)
MaxLeaves == 4       \* longest count vector handed to the tally engine
MaxCount == 2        \* largest per-candidate count handed to the tally engine

(***************************************************************************)
(* Machine arithmetic.                                                     *)
(***************************************************************************)
RECURSIVE Pow2(_)
Pow2(n) == IF n = 0 THEN 1 ELSE 2 * Pow2(n - 1)

U32 == Pow2(HalfBits)          \* 2^32 in the source: modulus of uint32_t
U64 == Pow2(2 * HalfBits)      \* 2^64 in the source: modulus of uint64_t
U64Max == U64 - 1              \* ULLONG_MAX
U8 == 256                      \* modulus of uint8_t

RECURSIVE BitXor(_, _)
BitXor(a, b) ==
    IF a = 0 THEN b
    ELSE IF b = 0 THEN a
    ELSE (((a % 2) + (b % 2)) % 2) + 2 * BitXor(a \div 2, b \div 2)

Max(a, b) == IF a >= b THEN a ELSE b
Min(a, b) == IF a <= b THEN a ELSE b

(***************************************************************************)
(* Characters and strings.  A C string is the sequence of its character    *)
(* codes; NULL is a value no string equals.                                *)
(***************************************************************************)
NL == 10
CR == 13
COMMA == 44
PIPE == 124
CH0 == 48
NULL == <<0>>

IsDigit(c) == c >= 48 /\ c <= 57
IsSpace(c) == c \in {9, 10, 11, 12, 13, 32}

RECURSIVE Concat(_)
Concat(ss) == IF ss = <<>> THEN <<>> ELSE Head(ss) \o Concat(Tail(ss))

\* strncpy(dst, src, n) into a zeroed buffer: the first n characters.
strncpy(src, n) == IF Len(src) <= n THEN src ELSE SubSeq(src, 1, n)

\* printf("%llu") / printf("%u")
RECURSIVE Dec(_)
Dec(n) == IF n < 10 THEN <<CH0 + n>> ELSE Dec(n \div 10) \o <<CH0 + (n % 10)>>

RECURSIVE SkipSpace(_)
SkipSpace(s) == IF s # <<>> /\ IsSpace(Head(s)) THEN SkipSpace(Tail(s)) ELSE s

\* The value of the leading digits of s, saturating at lim.
RECURSIVE DigitsValue(_, _, _)
DigitsValue(s, acc, lim) ==
    IF s = <<>> \/ ~IsDigit(Head(s)) THEN acc
    ELSE DigitsValue(Tail(s), Min(lim, (acc * 10) + (Head(s) - CH0)), lim)

\* strtoull(s, NULL, 10): white space, then digits; ULLONG_MAX on overflow.
strtoull(s) == DigitsValue(SkipSpace(s), 0, U64Max)
\* atoi(s) on the unsigned digit strings the files hold.
atoi(s) == DigitsValue(SkipSpace(s), 0, U64Max)

\* the least element of a non-empty set of positions
First(S) == CHOOSE i \in S : \A j \in S : i <= j

\* strcspn(tok, "\r\n") followed by tok[...] = 0
StripEol(s) ==
    LET ends == {i \in 1..Len(s) : s[i] \in {CR, NL}}
    IN IF ends = {} THEN s ELSE SubSeq(s, 1, First(ends) - 1)

\* The successive results of strtok(s, delim), strtok(NULL, delim), ...:
\* the maximal runs of characters other than delim; empty fields vanish.
RECURSIVE Tokens(_, _, _)
Tokens(s, delim, start) ==
    LET begins == {i \in start..Len(s) : s[i] # delim} IN
    IF begins = {} THEN <<>>
    ELSE LET b == First(begins)
             ends == {i \in b..Len(s) : s[i] = delim}
             e == IF ends = {} THEN Len(s) + 1 ELSE First(ends)
         IN <<SubSeq(s, b, e - 1)>> \o Tokens(s, delim, e + 1)

strtok(s, delim) == Tokens(s, delim, 1)

\* The lines fgets hands out from a file's characters (each up to and
\* including its newline).
RECURSIVE FileLines(_, _)
FileLines(s, start) ==
    IF start > Len(s) THEN <<>>
    ELSE LET ends == {i \in start..Len(s) : s[i] = NL}
             e == IF ends = {} THEN Len(s) ELSE First(ends)
         IN <<SubSeq(s, start, e)>> \o FileLines(s, e + 1)

fgets_lines(file) == FileLines(file, 1)

(***************************************************************************)
(* hex_encode / hex_decode (app.c) over byte sequences.                    *)
(***************************************************************************)
HexDigit(v) == IF v < 10 THEN CH0 + v ELSE 97 + (v - 10)

HexValue(c) ==
    IF c >= 48 /\ c <= 57 THEN c - 48
    ELSE IF c >= 97 /\ c <= 102 THEN (c - 97) + 10
    ELSE IF c >= 65 /\ c <= 70 THEN (c - 65) + 10
    ELSE -1

RECURSIVE hex_encode(_)
hex_encode(bytes) ==
    IF bytes = <<>> THEN <<>>
    ELSE <<HexDigit(Head(bytes) \div 16), HexDigit(Head(bytes) % 16)>>
         \o hex_encode(Tail(bytes))

\* hex_decode(hexstr, dst, dst_len): dst as it is left (old: dst before);
\* the bytes up to the first bad digit are written even when it fails.
RECURSIVE HexDecodeFrom(_, _, _)
HexDecodeFrom(hexstr, old, i) ==
    IF i > Len(old) THEN old
    ELSE LET v1 == HexValue(hexstr[2 * i - 1])
             v2 == HexValue(hexstr[2 * i])
         IN IF v1 < 0 \/ v2 < 0 THEN old
            ELSE HexDecodeFrom(hexstr, [old EXCEPT ![i] = (v1 * 16) + v2], i + 1)

hex_decode(hexstr, old) ==
    IF Len(hexstr) # Len(old) * 2 THEN old ELSE HexDecodeFrom(hexstr, old, 1)

(***************************************************************************)
(* Constants of the headers.                                               *)
(***************************************************************************)
ROLE_VOTER == 0
ROLE_ADMIN == 1

ELECTION_CREATED == 0
REGISTRATION_OPEN == 1
VOTING_OPEN == 2
VOTING_CLOSED == 3
TALLY_COMPLETE == 4

MAX_NAME == 64
EMAIL_LEN == 4       \* size of user_rec_t.email (128 in the source)
PIN_LEN == 32
TITLE_LEN == 128
DESC_LEN == 512
MAX_CAND == 128
CAND_LEN == 64
SALT_LEN == 1        \* bytes of salt kept (16 in the source)
HASH_LEN == 1        \* bytes of password hash kept (32 in the source)

NIL == 0             \* the NULL record pointer; records are pointed to by
                     \* their position in their list

(***************************************************************************)
(* auth.c.  The hash word h0 is kept to its low 8 bits, so the shifts by   *)
(* 13 and 17 leave the word and only h0 ^= h0 >> 7 remains of the          *)
(* expansion.                                                              *)
(***************************************************************************)
FnvBasis32 == 197    \* 0x811c9dc5 mod 2^8
FnvPrime32 == 147    \* 16777619 mod 2^8

RECURSIVE FnvFold(_, _, _, _)
FnvFold(h, s, prime, modulus) ==
    IF s = <<>> THEN h
    ELSE FnvFold((BitXor(h, Head(s) % modulus) * prime) % modulus,
                 Tail(s), prime, modulus)

RECURSIVE HashExpand(_, _)
HashExpand(h0, n) ==
    IF n = 0 THEN <<>>
    ELSE LET h == BitXor(h0, h0 \div 128) IN <<h>> \o HashExpand(h, n - 1)

simple_hash(salt, password) ==
    HashExpand(FnvFold(FnvFold(FnvBasis32, salt, FnvPrime32, U8),
                       password, FnvPrime32, U8), HASH_LEN)

auth_hash_password(salt, password) == simple_hash(salt, password)

\* 0 when the password hashes to the stored hash, -1 otherwise
auth_verify_password(user, password) ==
    IF auth_hash_password(user.salt, password) = user.pass_hash THEN 0 ELSE -1

(***************************************************************************)
(* The indexed store as the map it implements (hash_table.c), and the      *)
(* record lists (linked_list.c).                                           *)
(***************************************************************************)
hash_table_init == [k \in {} |-> 0]

\* hash_table_get(ht, key, &out) == 0
hash_table_has(ht, key) == key \in DOMAIN ht

\* the value hash_table_get stores in *out_value
hash_table_get(ht, key) == ht[key]

hash_table_put(ht, key, value) ==
    [k \in (DOMAIN ht) \cup {key} |-> IF k = key THEN value ELSE ht[k]]

(***************************************************************************)
(* hash_table.c bucket by bucket: open addressing with linear probing.     *)
(* A table is the record of capacity, size and the bucket array (bucket    *)
(* idx of the source is position idx + 1); a bucket's state is 0 empty,    *)
(* 1 used, 2 tombstone.  A call's result carries terminates = FALSE when   *)
(* its probe loop has visited every bucket without meeting an exit: the    *)
(* loop changes nothing, so it then never ends.                            *)
(***************************************************************************)
MixMul1 == 36045     \* 0xff51afd7ed558ccd mod 2^16
MixMul2 == 60499     \* 0xc4ceb9fe1a85ec53 mod 2^16
\* modulus of size_t, kept wider than uint64_t keys are in the model so
\* that capacity * 7 does not wrap
SizeT == Pow2(4 * HalfBits)

\* x >> 33, the shift scaled with the width
MixShift(x) == x \div Pow2(HalfBits + 1)

mix64(x) ==
    LET x1 == BitXor(x % U64, MixShift(x % U64))
        x2 == (x1 * (MixMul1 % U64)) % U64
        x3 == BitXor(x2, MixShift(x2))
        x4 == (x3 * (MixMul2 % U64)) % U64
    IN BitXor(x4, MixShift(x4))

RECURSIVE ClampFrom(_, _)
ClampFrom(n, cap) == IF n < cap THEN ClampFrom(2 * n, cap) ELSE n

clamp_capacity(cap) == ClampFrom(1, cap)

\* calloc(n, sizeof(hash_bucket_t))
calloc_buckets(n) == [i \in 1..n |-> [key |-> 0, value |-> 0, state |-> 0]]

\* a table before hash_table_init and after hash_table_free
NoTable == [capacity |-> 0, size |-> 0, buckets |-> <<>>]

ht_init(capacity) ==
    LET cap == clamp_capacity(IF capacity # 0 THEN capacity ELSE 8)
    IN [capacity |-> cap, size |-> 0, buckets |-> calloc_buckets(cap)]

HtRet(t, rc, value, terminates) ==
    [ht |-> t, rc |-> rc, value |-> value, terminates |-> terminates]

\* the for (;;) loop of hash_table_put
RECURSIVE PutProbe(_, _, _, _, _, _)
PutProbe(t, key, value, idx, first_tomb, steps) ==
    LET b == t.buckets[idx + 1]
        next == (idx + 1) % t.capacity
    IN IF steps = t.capacity THEN HtRet(t, 0, 0, FALSE)
       ELSE IF b.state = 0
       THEN LET dest == IF first_tomb # -1 THEN first_tomb ELSE idx
            IN HtRet([t EXCEPT !.buckets[dest + 1] =
                                   [key |-> key, value |-> value, state |-> 1],
                               !.size = (@ + 1) % SizeT],
                     0, 0, TRUE)
       ELSE IF b.state = 2 /\ first_tomb = -1
       THEN PutProbe(t, key, value, next, idx, steps + 1)
       ELSE IF b.state = 1 /\ b.key = key
       THEN HtRet([t EXCEPT !.buckets[idx + 1].value = value], 0, 0, TRUE)
       ELSE PutProbe(t, key, value, next, first_tomb, steps + 1)

RECURSIVE ht_put(_, _, _, _)
RECURSIVE ReinsertFrom(_, _, _, _)
\* the copy loop of rehash: old bucket i and the ones after it
ReinsertFrom(old, new, i, alloc_ok) ==
    IF i > Len(old) THEN new
    ELSE ReinsertFrom(old,
                      IF old[i].state = 1
                      THEN ht_put(new, old[i].key, old[i].value, alloc_ok).ht
                      ELSE new,
                      i + 1, alloc_ok)

\* alloc_ok: the calloc of the new bucket array succeeds
rehash(t, new_cap, alloc_ok) ==
    IF ~alloc_ok
    THEN [rc |-> -1, ht |-> [t EXCEPT !.size = 0]]
    ELSE [rc |-> 0,
          ht |-> ReinsertFrom(t.buckets,
                              [capacity |-> new_cap, size |-> 0,
                               buckets |-> calloc_buckets(new_cap)],
                              1, alloc_ok)]

maybe_grow(t, alloc_ok) ==
    IF (((t.size + 1) % SizeT) * 10) % SizeT >= (t.capacity * 7) % SizeT
    THEN rehash(t, (t.capacity * 2) % SizeT, alloc_ok)
    ELSE [rc |-> 0, ht |-> t]

ht_put(t, key, value, alloc_ok) ==
    LET g == maybe_grow(t, alloc_ok)
    IN IF g.rc # 0 THEN HtRet(g.ht, -1, 0, TRUE)
       ELSE PutProbe(g.ht, key, value, mix64(key) % g.ht.capacity, -1, 0)

\* the for (;;) loop of hash_table_get
RECURSIVE GetProbe(_, _, _, _)
GetProbe(t, key, idx, steps) ==
    LET b == t.buckets[idx + 1] IN
    IF steps = t.capacity THEN HtRet(t, 0, 0, FALSE)
    ELSE IF b.state = 0 THEN HtRet(t, -1, 0, TRUE)
    ELSE IF b.state = 1 /\ b.key = key THEN HtRet(t, 0, b.value, TRUE)
    ELSE GetProbe(t, key, (idx + 1) % t.capacity, steps + 1)

ht_get(t, key) == GetProbe(t, key, mix64(key) % t.capacity, 0)

\* the for (;;) loop of hash_table_delete
RECURSIVE DeleteProbe(_, _, _, _)
DeleteProbe(t, key, idx, steps) ==
    LET b == t.buckets[idx + 1] IN
    IF steps = t.capacity THEN HtRet(t, 0, 0, FALSE)
    ELSE IF b.state = 0 THEN HtRet(t, -1, 0, TRUE)
    ELSE IF b.state = 1 /\ b.key = key
    THEN HtRet([t EXCEPT !.buckets[idx + 1].state = 2,
                         !.size = (@ - 1) % SizeT],
               0, 0, TRUE)
    ELSE DeleteProbe(t, key, (idx + 1) % t.capacity, steps + 1)

ht_delete(t, key) == DeleteProbe(t, key, mix64(key) % t.capacity, 0)

list_init == <<>>

list_push_back(list, data) == Append(list, data)

(***************************************************************************)
(* app.c: keys.                                                            *)
(***************************************************************************)
FnvBasis64 == 899    \* 1469598103934665603 mod 2^16
FnvPrime64 == 435    \* 1099511628211 mod 2^16

email_hash64(s) == FnvFold(FnvBasis64 % U64, s, FnvPrime64 % U64, U64)

vote_key(election_id, voter_id) ==
    BitXor((election_id * U32) % U64, voter_id % U32)

\* the position of the election record, NIL when the index has no such id
find_election_by_id(a, id) ==
    IF hash_table_has(a.election_by_id, id)
    THEN hash_table_get(a.election_by_id, id)
    ELSE NIL

Zeros(n) == [i \in 1..n |-> 0]

DefaultPin == <<49, 50, 51, 52>>     \* "1234"

app_init ==
    [next_user_id |-> 1, next_election_id |-> 1, next_vote_id |-> 1,
     admin_pin |-> strncpy(DefaultPin, PIN_LEN - 1), admin_exists |-> 0,
     users |-> list_init, elections |-> list_init, votes |-> list_init,
     user_by_id |-> hash_table_init, user_by_email |-> hash_table_init,
     election_by_id |-> hash_table_init, has_voted |-> hash_table_init,
     current_user |-> NIL]

Ret(a, rc) == [app |-> a, rc |-> rc]

(***************************************************************************)
(* app.c: the operations.                                                  *)
(***************************************************************************)
\* app_register_user without the admin_exists test
app_register_user_any_admin(a, name, email, password, role) ==
    LET h == email_hash64(email) IN
    IF hash_table_has(a.user_by_email, h) THEN Ret(a, -1)
    ELSE LET salt == Zeros(SALT_LEN)
             u == [id |-> a.next_user_id,
                   name |-> strncpy(name, MAX_NAME - 1),
                   email |-> strncpy(email, EMAIL_LEN - 1),
                   role |-> role,
                   salt |-> salt,
                   pass_hash |-> auth_hash_password(salt, password),
                   active |-> 1]
             ptr == Len(a.users) + 1
         IN Ret([a EXCEPT !.next_user_id = (@ + 1) % U64,
                          !.users = list_push_back(@, u),
                          !.user_by_id = hash_table_put(@, u.id, ptr),
                          !.user_by_email = hash_table_put(@, h, ptr),
                          !.admin_exists = IF role = ROLE_ADMIN THEN 1 ELSE @],
                0)

\* app_register_user taking the id before it tests the email
app_register_user_early_id(a, name, email, password, role) ==
    IF role = ROLE_ADMIN /\ a.admin_exists # 0 THEN Ret(a, -1)
    ELSE LET h == email_hash64(email) IN
    IF hash_table_has(a.user_by_email, h)
    THEN Ret([a EXCEPT !.next_user_id = (@ + 1) % U64], -1)
    ELSE LET salt == Zeros(SALT_LEN)
             u == [id |-> a.next_user_id,
                   name |-> strncpy(name, MAX_NAME - 1),
                   email |-> strncpy(email, EMAIL_LEN - 1),
                   role |-> role,
                   salt |-> salt,
                   pass_hash |-> auth_hash_password(salt, password),
                   active |-> 1]
             ptr == Len(a.users) + 1
         IN Ret([a EXCEPT !.next_user_id = (@ + 1) % U64,
                          !.users = list_push_back(@, u),
                          !.user_by_id = hash_table_put(@, u.id, ptr),
                          !.user_by_email = hash_table_put(@, h, ptr),
                          !.admin_exists = IF role = ROLE_ADMIN THEN 1 ELSE @],
                0)

app_register_user(a, name, email, password, role) ==
    IF role = ROLE_ADMIN /\ a.admin_exists # 0 THEN Ret(a, -1)
    ELSE LET h == email_hash64(email) IN
    IF hash_table_has(a.user_by_email, h) THEN Ret(a, -1)
    ELSE LET salt == Zeros(SALT_LEN)
             u == [id |-> a.next_user_id,
                   name |-> strncpy(name, MAX_NAME - 1),
                   email |-> strncpy(email, EMAIL_LEN - 1),
                   role |-> role,
                   salt |-> salt,
                   pass_hash |-> auth_hash_password(salt, password),
                   active |-> 1]
             ptr == Len(a.users) + 1
         IN Ret([a EXCEPT !.next_user_id = (@ + 1) % U64,
                          !.users = list_push_back(@, u),
                          !.user_by_id = hash_table_put(@, u.id, ptr),
                          !.user_by_email = hash_table_put(@, h, ptr),
                          !.admin_exists = IF role = ROLE_ADMIN THEN 1 ELSE @],
                0)

app_login(a, email, password, admin_pin_opt) ==
    LET h == email_hash64(email) IN
    IF ~hash_table_has(a.user_by_email, h) THEN Ret(a, -1)
    ELSE LET ptr == hash_table_get(a.user_by_email, h)
             u == a.users[ptr]
         IN IF auth_verify_password(u, password) # 0 THEN Ret(a, -1)
            ELSE IF u.role = ROLE_ADMIN
                    /\ (admin_pin_opt = NULL \/ admin_pin_opt # a.admin_pin)
                 THEN Ret(a, -1)
            ELSE Ret([a EXCEPT !.current_user = ptr], 0)

app_logout(a) == [a EXCEPT !.current_user = NIL]

\* the session is an administrator's
IsAdminSession(a) ==
    a.current_user # NIL /\ a.users[a.current_user].role = ROLE_ADMIN

\* app_create_election open to every caller
app_create_election_any_caller(a, title, desc, candidates, cand_count) ==
    LET el == [id |-> a.next_election_id,
               title |-> strncpy(title, TITLE_LEN - 1),
               description |-> strncpy(desc, DESC_LEN - 1),
               phase |-> ELECTION_CREATED,
               start_time |-> 0,
               end_time |-> 0,
               candidate_count |-> cand_count,
               candidates |-> [i \in 1..cand_count |->
                                  strncpy(candidates[i], CAND_LEN - 1)]]
        ptr == Len(a.elections) + 1
    IN Ret([a EXCEPT !.next_election_id = (@ + 1) % U64,
                     !.elections = list_push_back(@, el),
                     !.election_by_id = hash_table_put(@, el.id, ptr)],
           0)

app_create_election(a, title, desc, candidates, cand_count) ==
    IF ~IsAdminSession(a) THEN Ret(a, -1)
    ELSE LET el == [id |-> a.next_election_id,
                    title |-> strncpy(title, TITLE_LEN - 1),
                    description |-> strncpy(desc, DESC_LEN - 1),
                    phase |-> ELECTION_CREATED,
                    start_time |-> 0,
                    end_time |-> 0,
                    candidate_count |-> cand_count,
                    candidates |-> [i \in 1..cand_count |->
                                       strncpy(candidates[i], CAND_LEN - 1)]]
             ptr == Len(a.elections) + 1
         IN Ret([a EXCEPT !.next_election_id = (@ + 1) % U64,
                          !.elections = list_push_back(@, el),
                          !.election_by_id = hash_table_put(@, el.id, ptr)],
                0)

\* app_open_voting opening from every phase but VOTING_OPEN
app_open_voting_reopen(a, election_id) ==
    LET el == find_election_by_id(a, election_id) IN
    IF el = NIL \/ ~IsAdminSession(a) THEN Ret(a, -1)
    ELSE IF a.elections[el].phase # VOTING_OPEN
         THEN Ret([a EXCEPT !.elections[el].phase = VOTING_OPEN], 0)
         ELSE Ret(a, -1)

app_open_voting(a, election_id) ==
    LET el == find_election_by_id(a, election_id) IN
    IF el = NIL \/ ~IsAdminSession(a) THEN Ret(a, -1)
    ELSE IF a.elections[el].phase = ELECTION_CREATED
            \/ a.elections[el].phase = REGISTRATION_OPEN
         THEN Ret([a EXCEPT !.elections[el].phase = VOTING_OPEN], 0)
         ELSE Ret(a, -1)

\* app_close_voting closing from every phase
app_close_voting_any_phase(a, election_id) ==
    LET el == find_election_by_id(a, election_id) IN
    IF el = NIL \/ ~IsAdminSession(a) THEN Ret(a, -1)
    ELSE Ret([a EXCEPT !.elections[el].phase = VOTING_CLOSED], 0)

app_close_voting(a, election_id) ==
    LET el == find_election_by_id(a, election_id) IN
    IF el = NIL \/ ~IsAdminSession(a) THEN Ret(a, -1)
    ELSE IF a.elections[el].phase = VOTING_OPEN
         THEN Ret([a EXCEPT !.elections[el].phase = VOTING_CLOSED], 0)
         ELSE Ret(a, -1)

\* app_cast_vote without its has-voted lookup
app_cast_vote_unchecked(a, election_id, choice) ==
    IF a.current_user = NIL THEN Ret(a, -1)
    ELSE LET el == find_election_by_id(a, election_id) IN
    IF el = NIL \/ a.elections[el].phase # VOTING_OPEN THEN Ret(a, -1)
    ELSE IF choice >= a.elections[el].candidate_count THEN Ret(a, -1)
    ELSE LET key == vote_key(election_id, a.users[a.current_user].id)
             v == [id |-> a.next_vote_id,
                   election_id |-> election_id,
                   voter_id |-> a.users[a.current_user].id,
                   choice |-> choice]
         IN Ret([a EXCEPT !.next_vote_id = (@ + 1) % U64,
                          !.votes = list_push_back(@, v),
                          !.has_voted = hash_table_put(@, key, 1)],
                0)

\* app_cast_vote without its phase test
app_cast_vote_any_phase(a, election_id, choice) ==
    IF a.current_user = NIL THEN Ret(a, -1)
    ELSE LET el == find_election_by_id(a, election_id) IN
    IF el = NIL THEN Ret(a, -1)
    ELSE IF choice >= a.elections[el].candidate_count THEN Ret(a, -1)
    ELSE LET key == vote_key(election_id, a.users[a.current_user].id) IN
    IF hash_table_has(a.has_voted, key) THEN Ret(a, -1)
    ELSE LET v == [id |-> a.next_vote_id,
                   election_id |-> election_id,
                   voter_id |-> a.users[a.current_user].id,
                   choice |-> choice]
         IN Ret([a EXCEPT !.next_vote_id = (@ + 1) % U64,
                          !.votes = list_push_back(@, v),
                          !.has_voted = hash_table_put(@, key, 1)],
                0)

\* app_cast_vote taking the vote id before the has-voted lookup
app_cast_vote_early_id(a, election_id, choice) ==
    IF a.current_user = NIL THEN Ret(a, -1)
    ELSE LET el == find_election_by_id(a, election_id) IN
    IF el = NIL \/ a.elections[el].phase # VOTING_OPEN THEN Ret(a, -1)
    ELSE IF choice >= a.elections[el].candidate_count THEN Ret(a, -1)
    ELSE LET key == vote_key(election_id, a.users[a.current_user].id)
             a1 == [a EXCEPT !.next_vote_id = (@ + 1) % U64]
         IN
    IF hash_table_has(a.has_voted, key) THEN Ret(a1, -1)
    ELSE LET v == [id |-> a.next_vote_id,
                   election_id |-> election_id,
                   voter_id |-> a.users[a.current_user].id,
                   choice |-> choice]
         IN Ret([a1 EXCEPT !.votes = list_push_back(@, v),
                           !.has_voted = hash_table_put(@, key, 1)],
                0)

app_cast_vote(a, election_id, choice) ==
    IF a.current_user = NIL THEN Ret(a, -1)
    ELSE LET el == find_election_by_id(a, election_id) IN
    IF el = NIL \/ a.elections[el].phase # VOTING_OPEN THEN Ret(a, -1)
    ELSE IF choice >= a.elections[el].candidate_count THEN Ret(a, -1)
    ELSE LET key == vote_key(election_id, a.users[a.current_user].id) IN
    IF hash_table_has(a.has_voted, key) THEN Ret(a, -1)
    ELSE LET v == [id |-> a.next_vote_id,
                   election_id |-> election_id,
                   voter_id |-> a.users[a.current_user].id,
                   choice |-> choice]
         IN Ret([a EXCEPT !.next_vote_id = (@ + 1) % U64,
                          !.votes = list_push_back(@, v),
                          !.has_voted = hash_table_put(@, key, 1)],
                0)

(***************************************************************************)
(* app.c: the persistence mirror.  A data directory is a record of four    *)
(* files, each the sequence of its characters, NULL when the file cannot   *)
(* be opened.                                                              *)
(***************************************************************************)
\* "admin_exists,admin_pin,next_user_id,next_election_id,next_vote_id\n"
StateHeader ==
    <<
    97, 100, 109, 105, 110, 95, 101, 120, 105, 115, 116, 115, 44, 97, 100, 109,
    105, 110, 95, 112, 105, 110, 44, 110, 101, 120, 116, 95, 117, 115, 101, 114,
    95, 105, 100, 44, 110, 101, 120, 116, 95, 101, 108, 101, 99, 116, 105, 111,
    110, 95, 105, 100, 44, 110, 101, 120, 116, 95, 118, 111, 116, 101, 95, 105,
    100, 10 >>

\* "id,name,email,role,active,salt_hex,hash_hex\n"
UsersHeader ==
    <<
    105, 100, 44, 110, 97, 109, 101, 44, 101, 109, 97, 105, 108, 44, 114, 111,
    108, 101, 44, 97, 99, 116, 105, 118, 101, 44, 115, 97, 108, 116, 95, 104,
    101, 120, 44, 104, 97, 115, 104, 95, 104, 101, 120, 10 >>

\* "id,title,description,phase,candidate_count,candidates\n"
ElectionsHeader ==
    <<
    105, 100, 44, 116, 105, 116, 108, 101, 44, 100, 101, 115, 99, 114, 105, 112,
    116, 105, 111, 110, 44, 112, 104, 97, 115, 101, 44, 99, 97, 110, 100, 105,
    100, 97, 116, 101, 95, 99, 111, 117, 110, 116, 44, 99, 97, 110, 100, 105,
    100, 97, 116, 101, 115, 10 >>

\* "id,election_id,voter_id,choice\n"
VotesHeader ==
    <<
    105, 100, 44, 101, 108, 101, 99, 116, 105, 111, 110, 95, 105, 100, 44, 118,
    111, 116, 101, 114, 95, 105, 100, 44, 99, 104, 111, 105, 99, 101, 10 >>

CAND_BUF == 2048     \* char cand_buf[2048] of app_save_to_disk
SPLIT_TMP == 1024    \* char tmp[1024] of split_candidates

\* el->candidates[i] (0-based i): a slot never written holds the empty string
Cand(el, i) == IF i + 1 <= Len(el.candidates) THEN el.candidates[i + 1] ELSE <<>>

\* strncat(buf, src, room): src cut to the room left
strncat(buf, src, room) ==
    IF room <= 0 THEN buf ELSE buf \o strncpy(src, room)

RECURSIVE JoinFrom(_, _, _, _)
JoinFrom(el, buf, i, bufsz) ==
    IF i >= el.candidate_count THEN buf
    ELSE LET b1 == IF i > 0 /\ Len(buf) + 1 < bufsz
                   THEN strncat(buf, <<PIPE>>, bufsz - Len(buf) - 1)
                   ELSE buf
         IN JoinFrom(el, strncat(b1, Cand(el, i), bufsz - Len(b1) - 1),
                     i + 1, bufsz)

join_candidates(el, bufsz) == JoinFrom(el, <<>>, 0, bufsz)

\* split_candidates(s, el): the record with its candidates refilled
split_candidates(s, el) ==
    LET toks == strtok(strncpy(s, SPLIT_TMP - 1), PIPE)
        count == Min(Len(toks), MAX_CAND)
    IN [el EXCEPT !.candidates =
                      [i \in 1..Max(count, Len(el.candidates)) |->
                          IF i <= count THEN strncpy(toks[i], CAND_LEN - 1)
                          ELSE el.candidates[i]],
                  !.candidate_count = count]

Row(fields) ==
    LET RECURSIVE Sep(_)
        Sep(fs) == IF Len(fs) = 1 THEN Head(fs)
                   ELSE Head(fs) \o <<COMMA>> \o Sep(Tail(fs))
    IN Sep(fields) \o <<NL>>

UserRow(u) ==
    Row(<<Dec(u.id), u.name, u.email, Dec(u.role), Dec(u.active),
          hex_encode(u.salt), hex_encode(u.pass_hash)>>)

ElectionRow(el) ==
    Row(<<Dec(el.id), el.title, el.description, Dec(el.phase),
          Dec(el.candidate_count), join_candidates(el, CAND_BUF)>>)

VoteRow(v) ==
    Row(<<Dec(v.id), Dec(v.election_id), Dec(v.voter_id), Dec(v.choice)>>)

RECURSIVE Rows(_, _)
Rows(F(_), list) ==
    IF list = <<>> THEN <<>> ELSE F(Head(list)) \o Rows(F, Tail(list))

\* the files app_save_to_disk writes when every fopen succeeds
app_save_to_disk(a) ==
    [state |-> StateHeader
               \o Row(<<Dec(IF a.admin_exists # 0 THEN 1 ELSE 0), a.admin_pin,
                        Dec(a.next_user_id), Dec(a.next_election_id),
                        Dec(a.next_vote_id)>>),
     users |-> UsersHeader \o Rows(UserRow, a.users),
     elections |-> ElectionsHeader \o Rows(ElectionRow, a.elections),
     votes |-> VotesHeader \o Rows(VoteRow, a.votes)]

\* the lines after the header line
DataLines(file) ==
    LET ls == fgets_lines(file) IN IF ls = <<>> THEN <<>> ELSE Tail(ls)

LoadState(a, file) ==
    IF file = NULL \/ DataLines(file) = <<>> THEN a
    ELSE LET toks == strtok(Head(DataLines(file)), COMMA)
             n == Len(toks)
         IN [a EXCEPT
               !.admin_exists = IF n >= 1 THEN atoi(toks[1]) % U8 ELSE @,
               !.admin_pin = IF n >= 2 THEN strncpy(toks[2], PIN_LEN - 1) ELSE @,
               !.next_user_id = IF n >= 3 THEN strtoull(toks[3]) ELSE @,
               !.next_election_id = IF n >= 4 THEN strtoull(toks[4]) ELSE @,
               !.next_vote_id = IF n >= 5 THEN strtoull(toks[5]) ELSE @]

\* LoadUserRow taking the counter from every row, the last row deciding
LoadUserRow_last_row(a, line) ==
    LET toks == strtok(line, COMMA)
        n == Len(toks)
    IN IF n = 0 THEN a
       ELSE LET u == [id |-> strtoull(toks[1]),
                      name |-> IF n >= 2 THEN strncpy(toks[2], MAX_NAME - 1)
                               ELSE <<>>,
                      email |-> IF n >= 3 THEN strncpy(toks[3], EMAIL_LEN - 1)
                                ELSE <<>>,
                      role |-> IF n >= 4 THEN atoi(toks[4]) ELSE 0,
                      active |-> IF n >= 5 THEN atoi(toks[5]) % U8 ELSE 0,
                      salt |-> IF n >= 6 THEN hex_decode(toks[6], Zeros(SALT_LEN))
                               ELSE Zeros(SALT_LEN),
                      pass_hash |-> IF n >= 7
                                    THEN hex_decode(StripEol(toks[7]),
                                                    Zeros(HASH_LEN))
                                    ELSE Zeros(HASH_LEN)]
                ptr == Len(a.users) + 1
            IN [a EXCEPT
                  !.users = list_push_back(@, u),
                  !.user_by_id = hash_table_put(@, u.id, ptr),
                  !.user_by_email = hash_table_put(@, email_hash64(u.email), ptr),
                  !.admin_exists = IF u.role = ROLE_ADMIN THEN 1 ELSE @,
                  !.next_user_id = (u.id + 1) % U64]

LoadUserRow(a, line) ==
    LET toks == strtok(line, COMMA)
        n == Len(toks)
    IN IF n = 0 THEN a
       ELSE LET u == [id |-> strtoull(toks[1]),
                      name |-> IF n >= 2 THEN strncpy(toks[2], MAX_NAME - 1)
                               ELSE <<>>,
                      email |-> IF n >= 3 THEN strncpy(toks[3], EMAIL_LEN - 1)
                                ELSE <<>>,
                      role |-> IF n >= 4 THEN atoi(toks[4]) ELSE 0,
                      active |-> IF n >= 5 THEN atoi(toks[5]) % U8 ELSE 0,
                      salt |-> IF n >= 6 THEN hex_decode(toks[6], Zeros(SALT_LEN))
                               ELSE Zeros(SALT_LEN),
                      pass_hash |-> IF n >= 7
                                    THEN hex_decode(StripEol(toks[7]),
                                                    Zeros(HASH_LEN))
                                    ELSE Zeros(HASH_LEN)]
                ptr == Len(a.users) + 1
            IN [a EXCEPT
                  !.users = list_push_back(@, u),
                  !.user_by_id = hash_table_put(@, u.id, ptr),
                  !.user_by_email = hash_table_put(@, email_hash64(u.email), ptr),
                  !.admin_exists = IF u.role = ROLE_ADMIN THEN 1 ELSE @,
                  !.next_user_id = IF u.id >= @ THEN (u.id + 1) % U64 ELSE @]

LoadElectionRow(a, line) ==
    LET toks == strtok(line, COMMA)
        n == Len(toks)
    IN IF n = 0 THEN a
       ELSE LET e0 == [id |-> strtoull(toks[1]),
                       title |-> IF n >= 2 THEN strncpy(toks[2], TITLE_LEN - 1)
                                 ELSE <<>>,
                       description |-> IF n >= 3
                                       THEN strncpy(toks[3], DESC_LEN - 1)
                                       ELSE <<>>,
                       phase |-> IF n >= 4 THEN atoi(toks[4]) ELSE 0,
                       start_time |-> 0,
                       end_time |-> 0,
                       candidate_count |-> IF n >= 5 THEN strtoull(toks[5]) % U32
                                           ELSE 0,
                       candidates |-> <<>>]
                el == IF n >= 6 THEN split_candidates(StripEol(toks[6]), e0)
                      ELSE e0
                ptr == Len(a.elections) + 1
            IN [a EXCEPT
                  !.elections = list_push_back(@, el),
                  !.election_by_id = hash_table_put(@, el.id, ptr),
                  !.next_election_id = IF el.id >= @ THEN (el.id + 1) % U64 ELSE @]

LoadVoteRow(a, line) ==
    LET toks == strtok(line, COMMA)
        n == Len(toks)
    IN IF n = 0 THEN a
       ELSE LET v == [id |-> strtoull(toks[1]),
                      election_id |-> IF n >= 2 THEN strtoull(toks[2]) ELSE 0,
                      voter_id |-> IF n >= 3 THEN strtoull(toks[3]) ELSE 0,
                      choice |-> IF n >= 4 THEN strtoull(toks[4]) % U32 ELSE 0]
            IN [a EXCEPT
                  !.votes = list_push_back(@, v),
                  !.has_voted = hash_table_put(@, vote_key(v.election_id,
                                                            v.voter_id), 1),
                  !.next_vote_id = IF v.id >= @ THEN (v.id + 1) % U64 ELSE @]

RECURSIVE LoadRows(_, _, _)
LoadRows(F(_, _), a, lines) ==
    IF lines = <<>> THEN a ELSE LoadRows(F, F(a, Head(lines)), Tail(lines))

LoadTable(F(_, _), a, file) ==
    IF file = NULL THEN a ELSE LoadRows(F, a, DataLines(file))

\* the engine state app_load_from_disk leaves (it always returns 0)
app_load_from_disk(a, dir) ==
    LET a1 == LoadState(a, dir.state)
        a2 == LoadTable(LoadUserRow, a1, dir.users)
        a3 == LoadTable(LoadElectionRow, a2, dir.elections)
        a4 == LoadTable(LoadVoteRow, a3, dir.votes)
    IN [a4 EXCEPT !.current_user = NIL]

(***************************************************************************)
(* selection_tree.c and tally_winner.  The tree array is indexed from 0;   *)
(* slot 1 is the root and slots base .. base + n - 1 are the leaves.       *)
(***************************************************************************)
RECURSIVE NextPow2From(_, _)
NextPow2From(p, n) == IF p < n THEN NextPow2From(2 * p, n) ELSE p

next_pow2(n) == NextPow2From(1, n)

NoTree == [leaf_count |-> 0, tree_size |-> 0, tree |-> <<>>]

\* the loop for (i = base - 1; i > 0; i--) of selection_tree_build
RECURSIVE BuildInner(_, _)
BuildInner(t, i) ==
    IF i <= 0 THEN t
    ELSE LET left == t[2 * i]
             right == t[(2 * i) + 1]
         IN BuildInner([t EXCEPT ![i] = IF left >= right THEN left ELSE right],
                       i - 1)

\* leaves is the 1-based sequence of the n counts
selection_tree_build(leaves, n) ==
    LET base == next_pow2(n)
        size == base * 2
        t0 == [i \in 0..(size - 1) |->
                 IF i >= base /\ i < base + n THEN leaves[(i - base) + 1] ELSE 0]
    IN [leaf_count |-> n, tree_size |-> size, tree |-> BuildInner(t0, base - 1)]

RECURSIVE WinnerScan(_, _, _, _)
WinnerScan(t, base, best, i) ==
    IF i >= t.leaf_count THEN 0
    ELSE IF t.tree[base + i] = best THEN i
    ELSE WinnerScan(t, base, best, i + 1)

\* selection_tree_winner without the break: the last matching leaf
selection_tree_winner_last(t) ==
    LET base == t.tree_size \div 2
        hits == {i \in 0..(t.leaf_count - 1) : t.tree[base + i] = t.tree[1]}
    IN IF hits = {} THEN 0 ELSE CHOOSE i \in hits : \A k \in hits : k <= i

selection_tree_winner(t) == WinnerScan(t, t.tree_size \div 2, t.tree[1], 0)

\* the loop while (pos > 1) of selection_tree_update
RECURSIVE UpdateUp(_, _)
UpdateUp(t, pos) ==
    IF pos <= 1 THEN t
    ELSE LET up == pos \div 2
             left == t[2 * up]
             right == t[(2 * up) + 1]
         IN UpdateUp([t EXCEPT ![up] = IF left >= right THEN left ELSE right],
                     up)

\* selection_tree_update without the walk to the root
selection_tree_update_leaf(t, index, value) ==
    IF index >= t.leaf_count THEN [rc |-> -1, tree |-> t]
    ELSE LET pos == (t.tree_size \div 2) + index
         IN [rc |-> 0, tree |-> [t EXCEPT !.tree[pos] = value]]

selection_tree_update(t, index, value) ==
    IF index >= t.leaf_count THEN [rc |-> -1, tree |-> t]
    ELSE LET pos == (t.tree_size \div 2) + index
         IN [rc |-> 0,
             tree |-> [t EXCEPT !.tree = UpdateUp([@ EXCEPT ![pos] = value],
                                                   pos)]]

\* the index tally_winner stores in *out_index
tally_winner(cs, n) == selection_tree_winner(selection_tree_build(cs, n))

\* app_tally: the counts it prints and the index it prints as Winner
app_tally(a, election_id) ==
    LET el == find_election_by_id(a, election_id) IN
    IF el = NIL THEN [rc |-> -1, counts |-> <<>>, win |-> 0, app |-> a]
    ELSE LET n == a.elections[el].candidate_count
             cs == [i \in 1..n |->
                      Cardinality({k \in 1..Len(a.votes) :
                                      /\ a.votes[k].election_id = election_id
                                      /\ a.votes[k].choice = i - 1})]
         IN [rc |-> 0, counts |-> cs,
             win |-> selection_tree_winner(selection_tree_build(cs, n)),
             app |-> a]

(***************************************************************************)
(* The JavaScript engine (js-voting-system/src/app/AppState.js).  Lists    *)
(* are sequences, a HashTable is a finite map (its get and put compare     *)
(* keys with ===), an object reference is the position of the object in    *)
(* its list.  sha256(salt + password) is kept as the pair it is computed   *)
(* from.  save() hands the rows it builds to saveCSV; the rows are kept    *)
(* in the field disk.                                                      *)
(***************************************************************************)
UNDERSCORE == 95
\* a request body is JSON: besides numbers a field may hold null, written
\* here as a value no number of the model takes
null == -2

\* the conversion the relational operators apply to an operand
ToNumber(x) == IF x = null THEN 0 ELSE x

\* x names an element of an array of length n
IsArrayIndex(x, n) == x # null /\ x \in 0..(n - 1)


JsPhases == {"CREATED", "REGISTRATION_OPEN", "VOTING_OPEN", "VOTING_CLOSED",
             "TALLY_COMPLETE"}

HashTable_has(h, key) == key \in DOMAIN h
HashTable_get(h, key) == IF key \in DOMAIN h THEN h[key] ELSE NIL
HashTable_put(h, key, value) ==
    [k \in DOMAIN h \cup {key} |-> IF k = key THEN value ELSE h[k]]
HashTable_delete(h, key) == [k \in DOMAIN h \ {key} |-> h[k]]

hashPassword(password, salt) == [hash |-> <<salt, password>>, salt |-> salt]
verifyPassword(password, hash, salt) == hashPassword(password, salt).hash = hash

AppState ==
    [users |-> <<>>, elections |-> <<>>, votes |-> <<>>,
     userById |-> hash_table_init, userByEmail |-> hash_table_init,
     electionById |-> hash_table_init, hasVoted |-> hash_table_init,
     sessions |-> hash_table_init,
     nextUserId |-> 1, nextElectionId |-> 1, nextVoteId |-> 1,
     adminExists |-> FALSE, adminPin |-> DefaultPin,
     disk |-> [users |-> <<>>, elections |-> <<>>, votes |-> <<>>,
               state |-> <<>>]]

JsRet(j, result) == [js |-> j, result |-> result]

\* the rows save() builds for each file, in the order it writes them
SaveFiles == <<"users", "elections", "votes", "state">>

userRows(j) == [i \in 1..Len(j.users) |-> [j.users[i] EXCEPT !.id = Dec(@)]]

electionRows(j) ==
    [i \in 1..Len(j.elections) |-> [j.elections[i] EXCEPT !.id = Dec(@)]]

\* vote.choice.toString() throws a TypeError when the choice is null
voteRowsThrow(j) == \E i \in 1..Len(j.votes) : j.votes[i].choice = null

voteRows(j) ==
    [i \in 1..Len(j.votes) |->
        [id |-> Dec(j.votes[i].id),
         electionId |-> Dec(j.votes[i].electionId),
         voterId |-> Dec(j.votes[i].voterId),
         choice |-> IF j.votes[i].choice = null THEN <<>>
                    ELSE Dec(j.votes[i].choice)]]

stateRows(j) == << [adminExists |-> j.adminExists, adminPin |-> j.adminPin] >>

RowsOf(j, file) ==
    CASE file = "users" -> userRows(j)
      [] file = "elections" -> electionRows(j)
      [] file = "votes" -> voteRows(j)
      [] file = "state" -> stateRows(j)

\* save() run to its end with no other handler in between: the files after
\* it; the exception leaves votes.csv and state.csv as they were
save(j) ==
    IF voteRowsThrow(j)
    THEN [j EXCEPT !.disk.users = userRows(j),
                   !.disk.elections = electionRows(j)]
    ELSE [j EXCEPT !.disk = [f \in {"users", "elections", "votes", "state"} |->
                                RowsOf(j, f)]]

\* `await this.save(); return result`
afterSave(j, result) ==
    JsRet(save(j), IF voteRowsThrow(j) THEN "TypeError" ELSE result)

registerUser(j, name, email, password, role, salt) ==
    IF role = "admin" /\ j.adminExists
    THEN JsRet(j, "Only one admin is allowed")
    ELSE IF HashTable_has(j.userByEmail, email)
    THEN JsRet(j, "Email already registered")
    ELSE LET hp == hashPassword(password, salt)
             user == [id |-> j.nextUserId, name |-> name, email |-> email,
                      passwordHash |-> hp.hash, role |-> role,
                      salt |-> hp.salt, active |-> TRUE]
             pos == Len(j.users) + 1
         IN afterSave([j EXCEPT !.nextUserId = @ + 1,
                                 !.users = Append(@, user),
                                 !.userById = HashTable_put(@, user.id, pos),
                                 !.userByEmail = HashTable_put(@, email, pos),
                                 !.adminExists = @ \/ (role = "admin")],
                  "user")

login(j, email, password, adminPin, token) ==
    LET user == HashTable_get(j.userByEmail, email) IN
    IF user = NIL THEN JsRet(j, "Invalid email or password")
    ELSE IF ~verifyPassword(password, j.users[user].passwordHash,
                            j.users[user].salt)
    THEN JsRet(j, "Invalid email or password")
    ELSE IF /\ j.users[user].role = "admin"
            /\ (adminPin = NULL \/ adminPin = <<>> \/ adminPin # j.adminPin)
    THEN JsRet(j, "Invalid admin PIN")
    ELSE JsRet([j EXCEPT !.sessions = HashTable_put(@, token, user)], "token")

logout(j, token) == [j EXCEPT !.sessions = HashTable_delete(@, token)]

createElection(j, title, description, candidates) ==
    IF Len(candidates) = 0 THEN JsRet(j, "At least one candidate required")
    ELSE LET election == [id |-> j.nextElectionId, title |-> title,
                          description |-> description,
                          candidates |-> candidates, phase |-> "CREATED",
                          startTime |-> FALSE, endTime |-> FALSE]
             pos == Len(j.elections) + 1
         IN afterSave([j EXCEPT !.nextElectionId = @ + 1,
                                 !.elections = Append(@, election),
                                 !.electionById =
                                     HashTable_put(@, election.id, pos)],
                  "election")

updateElectionPhase(j, electionId, phase) ==
    LET election == HashTable_get(j.electionById, electionId) IN
    IF election = NIL THEN JsRet(j, "Election not found")
    ELSE afterSave([j EXCEPT
                 !.elections[election].phase = phase,
                 !.elections[election].startTime =
                     @ \/ (phase = "VOTING_OPEN"),
                 !.elections[election].endTime =
                     @ \/ (phase = "VOTING_CLOSED")],
               "success")

\* the key `${electionId}_${user.id}`
HasVotedKey(electionId, userId) ==
    Dec(electionId) \o <<UNDERSCORE>> \o Dec(userId)

\* castVote appending its Vote without the has-voted insert
castVoteStart_unmarked(j, token, electionId, choice) ==
    LET user == HashTable_get(j.sessions, token) IN
    IF user = NIL THEN JsRet(j, "Not authenticated")
    ELSE LET election == HashTable_get(j.electionById, electionId) IN
    IF election = NIL THEN JsRet(j, "Election not found")
    ELSE IF j.elections[election].phase # "VOTING_OPEN"
    THEN JsRet(j, "Election is not open for voting")
    ELSE IF \/ ToNumber(choice) < 0
            \/ ToNumber(choice) >= Len(j.elections[election].candidates)
    THEN JsRet(j, "Invalid candidate choice")
    ELSE LET key == HasVotedKey(electionId, j.users[user].id) IN
    IF HashTable_has(j.hasVoted, key)
    THEN JsRet(j, "You have already voted in this election")
    ELSE LET vote == [id |-> j.nextVoteId, electionId |-> electionId,
                      voterId |-> j.users[user].id, choice |-> choice]
         IN JsRet([j EXCEPT !.nextVoteId = @ + 1,
                            !.votes = Append(@, vote)],
                  "vote")

\* castVote up to its `await this.save()`: the result "vote" stands for
\* a call that has appended its Vote and goes on to save
castVoteStart(j, token, electionId, choice) ==
    LET user == HashTable_get(j.sessions, token) IN
    IF user = NIL THEN JsRet(j, "Not authenticated")
    ELSE LET election == HashTable_get(j.electionById, electionId) IN
    IF election = NIL THEN JsRet(j, "Election not found")
    ELSE IF j.elections[election].phase # "VOTING_OPEN"
    THEN JsRet(j, "Election is not open for voting")
    ELSE IF \/ ToNumber(choice) < 0
            \/ ToNumber(choice) >= Len(j.elections[election].candidates)
    THEN JsRet(j, "Invalid candidate choice")
    ELSE LET key == HasVotedKey(electionId, j.users[user].id) IN
    IF HashTable_has(j.hasVoted, key)
    THEN JsRet(j, "You have already voted in this election")
    ELSE LET vote == [id |-> j.nextVoteId, electionId |-> electionId,
                      voterId |-> j.users[user].id, choice |-> choice]
         IN JsRet([j EXCEPT !.nextVoteId = @ + 1,
                            !.votes = Append(@, vote),
                            !.hasVoted = HashTable_put(@, key, TRUE)],
                  "vote")

castVote(j, token, electionId, choice) ==
    LET r == castVoteStart(j, token, electionId, choice)
    IN IF r.result = "vote" THEN afterSave(r.js, "vote") ELSE r

(***************************************************************************)
(* ds/SelectionTree.js: an array of 2n - 1 slots in heap layout holding    *)
(* candidate indices; slot p of the script is position p + 1 here.         *)
(***************************************************************************)
UNDEFINED == -1

Slot(t, p) == IF p + 1 \in 1..Len(t) THEN t[p + 1] ELSE UNDEFINED

RECURSIVE BuildNodes(_, _, _)
BuildNodes(cs, t, i) ==
    IF i < 0 THEN t
    ELSE LET left == Slot(t, 2 * i + 1)
             right == Slot(t, 2 * i + 2)
             node == IF right = UNDEFINED \/ cs[left + 1] >= cs[right + 1]
                     THEN left ELSE right
         IN BuildNodes(cs, [t EXCEPT ![i + 1] = node], i - 1)

SelectionTree_build(cs) ==
    LET n == Len(cs)
        treeSize == 2 * n - 1
        leaves == [p \in 1..treeSize |->
                     IF p - 1 >= n - 1 THEN p - 1 - (n - 1) ELSE UNDEFINED]
    IN BuildNodes(cs, leaves, n - 2)

SelectionTree(cs) ==
    [counts |-> cs, n |-> Len(cs),
     tree |-> IF Len(cs) > 0 THEN SelectionTree_build(cs) ELSE <<>>]

NoJsTree == [counts |-> <<>>, n |-> 0, tree |-> <<>>]

SelectionTree_winner(t) ==
    IF t.tree = <<>> \/ t.n = 0 THEN -1 ELSE t.tree[1]

RECURSIVE CountVotes(_, _, _, _)
CountVotes(votes, electionId, cs, k) ==
    IF k > Len(votes) THEN cs
    ELSE LET vote == votes[k]
         IN CountVotes(votes, electionId,
                IF /\ vote.electionId = electionId
                   /\ ToNumber(vote.choice) < Len(cs)
                THEN \* counts[vote.choice]++ on a key that is no index
                     \* sets a property and leaves the elements alone
                     IF IsArrayIndex(vote.choice, Len(cs))
                     THEN [cs EXCEPT ![vote.choice + 1] = @ + 1] ELSE cs
                ELSE cs,
                k + 1)

RECURSIVE Sum(_)
Sum(cs) == IF cs = <<>> THEN 0 ELSE Head(cs) + Sum(Tail(cs))

tallyElection(j, electionId) ==
    LET election == HashTable_get(j.electionById, electionId) IN
    IF election = NIL
    THEN [error |-> "Election not found", js |-> j]
    ELSE LET cands == j.elections[election].candidates
             cs == CountVotes(j.votes, electionId,
                              [i \in 1..Len(cands) |-> 0], 1)
             winnerIndex == SelectionTree_winner(SelectionTree(cs))
         IN [error |-> "", js |-> j,
             electionId |-> electionId,
             phase |-> j.elections[election].phase,
             totalVotes |-> Sum(cs),
             counts |-> cs,
             winner |-> [index |-> winnerIndex,
                         votes |-> IF winnerIndex = -1 THEN 0
                                   ELSE cs[winnerIndex + 1]]]

(***************************************************************************)
(* The arguments the calls are made with.                                  *)
(***************************************************************************)
Names == {<<>>, <<110>>}                  \* "", "n"
Emails == {<<97>>, <<98>>}                \* "a", "b"
Password == <<112>>                       \* "p"
LoginPasswords == {<<112>>, <<113>>}      \* "p", "q"
Pins == {NULL, DefaultPin, <<CH0>>}       \* no PIN, "1234", "0"
Roles == {ROLE_VOTER, ROLE_ADMIN}
Titles == {<<>>, <<116>>}                 \* "", "t"
Descriptions == {<<>>, <<100>>}           \* "", "d"
CandidateLists == {<< <<65>> >>, << <<65>>, <<66>> >>}   \* A; A, B
ElectionIds == 0..(MaxElections + 1)
Choices == 0..2
MaxTokens == 2
JsName == <<110>>                         \* "n"
JsRoles == {"voter", "admin"}
Salts == {<<CH0>>}                        \* the salt randomBytes draws
SessionTokens == 1..MaxTokens                    \* the token randomBytes draws
JsPhaseArgs == JsPhases \cup {"OTHER"}
JsChoices == (-1..2) \cup {null}

(***************************************************************************)
(* The engine as a state machine: one action per app_* call.               *)
(***************************************************************************)
MaxRequests == 3
Requests == 1..MaxRequests

\* no request in flight
NoRequests ==
    [h \in Requests |->
        [pc |-> "idle", token |-> 0, choice |-> 0, file |-> 0, rows |-> <<>>,
         result |-> "none"]]

\* a data directory with none of the four files
NoFiles == [state |-> NULL, users |-> NULL, elections |-> NULL, votes |-> NULL]

Init ==
    /\ requests = NoRequests
    /\ table = NoTable
    /\ app = app_init
    /\ js = AppState
    /\ running \in {"c", "js"}
    /\ disk = NoFiles
    /\ counts = <<>>
    /\ tree = NoTree
    /\ win = -1
    /\ jstree = NoJsTree
    /\ jswin = -2

RegisterUser ==
    \E name \in Names, email \in Emails, role \in Roles :
        /\ running = "c"
        /\ Len(app.users) < MaxUsers
        /\ app' = app_register_user(app, name, email, Password, role).app
        /\ UNCHANGED <<js, running, requests, table, disk, tally_vars>>

Login ==
    \E email \in Emails, password \in LoginPasswords, pin \in Pins :
        /\ running = "c"
        /\ app' = app_login(app, email, password, pin).app
        /\ UNCHANGED <<js, running, requests, table, disk, tally_vars>>

Logout ==
    /\ running = "c"
    /\ app' = app_logout(app)
    /\ UNCHANGED <<js, running, requests, table, disk, tally_vars>>

CreateElection ==
    \E title \in Titles, desc \in Descriptions, cands \in CandidateLists :
        /\ running = "c"
        /\ Len(app.elections) < MaxElections
        /\ app' = app_create_election(app, title, desc, cands, Len(cands)).app
        /\ UNCHANGED <<js, running, requests, table, disk, tally_vars>>

OpenVoting ==
    \E id \in ElectionIds :
        /\ running = "c"
        /\ app' = app_open_voting(app, id).app
        /\ UNCHANGED <<js, running, requests, table, disk, tally_vars>>

CloseVoting ==
    \E id \in ElectionIds :
        /\ running = "c"
        /\ app' = app_close_voting(app, id).app
        /\ UNCHANGED <<js, running, requests, table, disk, tally_vars>>

CastVote ==
    \E id \in ElectionIds, choice \in Choices :
        /\ running = "c"
        /\ app' = app_cast_vote(app, id, choice).app
        /\ UNCHANGED <<js, running, requests, table, disk, tally_vars>>

JsRegisterUser ==
    \E email \in Emails, role \in JsRoles, salt \in Salts :
        /\ running = "js"
        /\ Len(js.users) < MaxUsers
        /\ js' = registerUser(js, JsName, email, Password, role, salt).js
        /\ UNCHANGED <<app, running, requests, table, disk, tally_vars>>

JsLogin ==
    \E email \in Emails, password \in LoginPasswords, pin \in Pins,
       token \in SessionTokens :
        /\ running = "js"
        /\ js' = login(js, email, password, pin, token).js
        /\ UNCHANGED <<app, running, requests, table, disk, tally_vars>>

JsLogout ==
    \E token \in SessionTokens :
        /\ running = "js"
        /\ js' = logout(js, token)
        /\ UNCHANGED <<app, running, requests, table, disk, tally_vars>>

JsCreateElection ==
    \E cands \in CandidateLists \cup {<<>>} :
        /\ running = "js"
        /\ Len(js.elections) < MaxElections
        /\ js' = createElection(js, <<116>>, <<100>>, cands).js
        /\ UNCHANGED <<app, running, requests, table, disk, tally_vars>>

JsUpdateElectionPhase ==
    \E id \in ElectionIds, phase \in JsPhaseArgs :
        /\ running = "js"
        /\ js' = updateElectionPhase(js, id, phase).js
        /\ UNCHANGED <<app, running, requests, table, disk, tally_vars>>

JsCastVote ==
    \E token \in SessionTokens, id \in ElectionIds, choice \in JsChoices :
        /\ running = "js"
        /\ js' = castVote(js, token, id, choice).js
        /\ UNCHANGED <<app, running, requests, table, disk, tally_vars>>

Next ==
    \/ RegisterUser
    \/ Login
    \/ Logout
    \/ CreateElection
    \/ OpenVoting
    \/ CloseVoting
    \/ CastVote
    \/ JsRegisterUser
    \/ JsLogin
    \/ JsLogout
    \/ JsCreateElection
    \/ JsUpdateElectionPhase
    \/ JsCastVote

Spec == Init /\ [][Next]_vars

(***************************************************************************)
(* The account calls of the C engine over a wider set of arguments: an     *)
(* email that fills user_rec_t.email and one that is one character longer, *)
(* and two-character emails and passwords, among which the narrowed hashes *)
(* repeat as the full-width ones do among longer strings.                  *)
(***************************************************************************)
LongEmail(n) == [i \in 1..n |-> 97]

LongEmails == {LongEmail(EMAIL_LEN - 1), LongEmail(EMAIL_LEN)}

TwoCharEmails == {<<97, 100>>, <<100, 97>>}        \* "ad", "da"

AllEmails == Emails \cup LongEmails \cup TwoCharEmails

AllPasswords == LoginPasswords \cup {<<101, 97>>, <<97, 101>>}  \* "ea", "ae"

RegisterAnyEmail ==
    \E email \in AllEmails, role \in Roles :
        /\ running = "c"
        /\ Len(app.users) < MaxUsers
        /\ app' = app_register_user(app, <<110>>, email, Password, role).app
        /\ UNCHANGED <<js, running, requests, table, disk, tally_vars>>

LoginAny ==
    \E email \in AllEmails, password \in AllPasswords, pin \in Pins :
        /\ running = "c"
        /\ app' = app_login(app, email, password, pin).app
        /\ UNCHANGED <<js, running, requests, table, disk, tally_vars>>

NextAccounts ==
    \/ RegisterAnyEmail
    \/ LoginAny
    \/ Logout

SpecAccounts == Init /\ [][NextAccounts]_vars

(***************************************************************************)
(* The engines with their tally requests, which print the counts and the   *)
(* winner of an election.                                                  *)
(***************************************************************************)
\* menu entry "Tally": the printed counts and winner are kept in counts, win
Tally ==
    /\ running = "c"
    /\ \E eid \in ElectionIds :
        LET r == app_tally(app, eid) IN
        /\ app' = r.app
        /\ IF r.rc = 0
           THEN counts' = r.counts /\ win' = r.win
           ELSE UNCHANGED <<counts, win>>
    /\ UNCHANGED <<js, running, requests, table, disk, tree, jstree, jswin>>

\* GET /api/elections/:id/tally
JsTally ==
    /\ running = "js"
    /\ \E eid \in ElectionIds :
        LET r == tallyElection(js, eid) IN
        /\ js' = r.js
        /\ IF r.error = ""
           THEN counts' = r.counts /\ jswin' = r.winner.index
           ELSE UNCHANGED <<counts, jswin>>
    /\ UNCHANGED <<app, running, requests, table, disk, tree, win, jstree>>

NextWithTally ==
    \/ Next
    \/ Tally
    \/ JsTally

SpecWithTally == Init /\ [][NextWithTally]_vars

(***************************************************************************)
(* The C engine started on a data directory that already holds files:      *)
(* cli_run calls app_init and then app_load_from_disk before any other     *)
(* call.  The files are rows in the format app_save_to_disk writes, with   *)
(* ids, row order and state.csv counters chosen freely.                    *)
(***************************************************************************)
MaxRows == 2
FileIds == {1, 2, U64Max}
FileCounters == {1, 3, 5}

FileUser(id) ==
    [id |-> id, name |-> <<110>>,
     email |-> IF id = 1 THEN <<97>> ELSE IF id = 2 THEN <<98>> ELSE <<99>>,
     role |-> ROLE_VOTER, salt |-> Zeros(SALT_LEN),
     pass_hash |-> auth_hash_password(Zeros(SALT_LEN), Password),
     active |-> 1]

FileElection(id) ==
    [id |-> id, title |-> <<116>>, description |-> <<100>>,
     phase |-> VOTING_OPEN, start_time |-> 0, end_time |-> 0,
     candidate_count |-> 2, candidates |-> << <<65>>, <<66>> >>]

FileVote(id) == [id |-> id, election_id |-> 1, voter_id |-> 2, choice |-> 0]

\* the sequences of at most n distinct members of S
RECURSIVE DistinctSeqs(_, _)
DistinctSeqs(S, n) ==
    IF n = 0 THEN {<<>>}
    ELSE LET shorter == DistinctSeqs(S, n - 1) IN
         shorter \cup {q \in {Append(r, x) : r \in shorter, x \in S} :
                          \A i, k \in 1..Len(q) : (i # k) => (q[i] # q[k])}

\* state.csv with all three counters n; users.csv with the rows of ids
StateFile(n) ==
    StateHeader \o Row(<<Dec(0), DefaultPin, Dec(n), Dec(n), Dec(n)>>)
UsersFile(ids) ==
    UsersHeader \o Rows(UserRow, [i \in 1..Len(ids) |-> FileUser(ids[i])])

StateFiles == {NULL} \cup {StateFile(n) : n \in FileCounters}
UsersFiles == {NULL} \cup {UsersFile(ids) : ids \in DistinctSeqs(FileIds, MaxRows)}
ElectionsFiles ==
    {NULL} \cup {ElectionsHeader \o Rows(ElectionRow, <<FileElection(id)>>)
                    : id \in {1, U64Max}}
VotesFiles ==
    {NULL} \cup {VotesHeader \o Rows(VoteRow, <<FileVote(id)>>)
                    : id \in {1, U64Max}}

\* users.csv with a row that is not a well-formed user row, followed by
\* the row of voter 1: a row of two fields, and a row whose id is no number
MalformedUsersFiles ==
    {UsersHeader \o Row(fields) \o Rows(UserRow, <<FileUser(1)>>)
        : fields \in {<<Dec(2), <<110>>>>,
                      <<<<120>>, <<110>>, <<98>>, Dec(ROLE_VOTER), Dec(1),
                        <<CH0, CH0>>, <<CH0, CH0>>>>}}

InitFiles ==
    /\ requests = NoRequests
    /\ table = NoTable
    /\ app = app_init
    /\ js = AppState
    /\ running = "c"
    /\ disk \in [state : StateFiles,
                 users : UsersFiles \cup MalformedUsersFiles,
                 elections : ElectionsFiles, votes : VotesFiles]
    /\ counts = <<>>
    /\ tree = NoTree
    /\ win = -1
    /\ jstree = NoJsTree
    /\ jswin = -2

\* cli_run's app_load_from_disk on the freshly initialised engine
Load ==
    /\ running = "c"
    /\ app = app_init
    /\ app' = app_load_from_disk(app, disk)
    /\ UNCHANGED <<js, running, requests, table, disk, tally_vars>>

NextFiles ==
    \/ Load
    \/ RegisterUser
    \/ Login
    \/ CastVote

SpecFiles == InitFiles /\ [][NextFiles]_vars

(***************************************************************************)
(* The C engine started on a data directory whose ids do not fit 32 bits:  *)
(* strtoull reads any 64-bit id.  Two voters whose ids differ by 2^33, two *)
(* open elections whose ids differ by 2^32, and possibly the vote of the   *)
(* first voter in the first election.                                      *)
(***************************************************************************)
KeysUser(id) ==
    [FileUser(id) EXCEPT !.email = IF id < U32 THEN <<98>> ELSE <<97>>]

KeysUserIds == <<2, 2 * U32 + 2>>
KeysElectionIds == <<1, U32 + 1>>

KeysUsersFile ==
    UsersHeader \o Rows(UserRow, [i \in 1..2 |-> KeysUser(KeysUserIds[i])])
KeysElectionsFile ==
    ElectionsHeader
        \o Rows(ElectionRow, [i \in 1..2 |-> FileElection(KeysElectionIds[i])])

InitKeys ==
    /\ requests = NoRequests
    /\ table = NoTable
    /\ app = app_init
    /\ js = AppState
    /\ running = "c"
    /\ disk \in [state : StateFiles, users : {KeysUsersFile},
                 elections : {KeysElectionsFile},
                 votes : {NULL, VotesHeader \o Rows(VoteRow, <<FileVote(1)>>)}]
    /\ counts = <<>>
    /\ tree = NoTree
    /\ win = -1
    /\ jstree = NoJsTree
    /\ jswin = -2

KeysCastVote ==
    \E i \in 1..2, choice \in Choices :
        /\ running = "c"
        /\ app' = app_cast_vote(app, KeysElectionIds[i], choice).app
        /\ UNCHANGED <<js, running, requests, table, disk, tally_vars>>

NextKeys ==
    \/ Load
    \/ Login
    \/ Logout
    \/ KeysCastVote

SpecKeys == InitKeys /\ [][NextKeys]_vars

(***************************************************************************)
(* cli_run's bootstrap: app_init, app_load_from_disk, and the registration  *)
(* of the default administrator when admin_exists is 0 after the load.     *)
(***************************************************************************)
DefaultAdminName == <<97, 100, 109, 105, 110>>       \* "admin"

\* "admin@example.com", written with as many characters as the model's
\* email field holds (the literal fits the field of the source)
DefaultAdminEmail == strncpy(<<97, 100, 109, 105, 110, 64>>, EMAIL_LEN - 1)

bootstrap(files) ==
    LET a == app_load_from_disk(app_init, files)
    IN IF a.admin_exists = 0
       THEN app_register_user(a, DefaultAdminName, DefaultAdminEmail,
                              DefaultAdminName, ROLE_ADMIN).app
       ELSE a

\* the rows users.csv may hold: two voters, a voter who registered with the
\* default administrator's email, and an administrator
BootUsers ==
    {FileUser(1), FileUser(2),
     [FileUser(3) EXCEPT !.email = DefaultAdminEmail],
     [FileUser(4) EXCEPT !.role = ROLE_ADMIN]}

BootStateFiles ==
    {NULL} \cup {StateHeader \o Row(<<Dec(ae), DefaultPin, Dec(1), Dec(1),
                                      Dec(1)>>) : ae \in {0, 1}}

BootUsersFiles ==
    {NULL} \cup {UsersHeader \o Rows(UserRow, us)
                    : us \in DistinctSeqs(BootUsers, MaxRows)}

InitBoot ==
    /\ requests = NoRequests
    /\ table = NoTable
    /\ app = app_init
    /\ js = AppState
    /\ running = "c"
    /\ disk \in [state : BootStateFiles, users : BootUsersFiles,
                 elections : {NULL}, votes : {NULL}]
    /\ counts = <<>>
    /\ tree = NoTree
    /\ win = -1
    /\ jstree = NoJsTree
    /\ jswin = -2

Bootstrap ==
    /\ running = "c"
    /\ app = app_init
    /\ app' = bootstrap(disk)
    /\ UNCHANGED <<js, running, requests, table, disk, tally_vars>>

\* the administrator's login of the menu, with the default credentials
AdminLogin ==
    \E pin \in Pins :
        /\ running = "c"
        /\ app # app_init
        /\ app' = app_login(app, DefaultAdminEmail, DefaultAdminName, pin).app
        /\ UNCHANGED <<js, running, requests, table, disk, tally_vars>>

NextBoot ==
    \/ Bootstrap
    \/ AdminLogin

SpecBoot == InitBoot /\ [][NextBoot]_vars

(***************************************************************************)
(* The JavaScript server with several POST /api/votes requests in flight.  *)
(* A handler runs until its next await and is then suspended; the others   *)
(* run in between.  Its positions: "idle" (not yet arrived), "json"        *)
(* (awaiting c.req.json()), "build" (inside save(), resumed from an await  *)
(* and about to build the rows of the next file), "write" (awaiting the    *)
(* writeFile of those rows), "done" (response sent).  writeFile calls of   *)
(* different handlers complete in any order.                               *)
(***************************************************************************)
\* the server after two voters registered, sessions 1 and 2 were opened
\* (session 2 by the voter second) and election 1 was put to the vote
PreparedJs(second) ==
    LET j1 == registerUser(AppState, JsName, <<97>>, Password, "voter", <<CH0>>).js
        j2 == registerUser(j1, JsName, <<98>>, Password, "voter", <<CH0>>).js
        j3 == login(j2, <<97>>, Password, NULL, 1).js
        j4 == login(j3, second, Password, NULL, 2).js
        j5 == createElection(j4, <<116>>, <<100>>, << <<65>>, <<66>> >>).js
    IN updateElectionPhase(j5, 1, "VOTING_OPEN").js

InitRequests ==
    /\ requests = NoRequests
    /\ table = NoTable
    /\ app = app_init
    /\ js \in {PreparedJs(email) : email \in Emails}
    /\ running = "js"
    /\ disk = NoFiles
    /\ counts = <<>>
    /\ tree = NoTree
    /\ win = -1
    /\ jstree = NoJsTree
    /\ jswin = -2

\* the request arrives; the handler awaits its body
ReceiveVote(h) ==
    \E token \in SessionTokens, choice \in {0, 1} :
        /\ running = "js"
        /\ requests[h].pc = "idle"
        /\ requests' = [requests EXCEPT ![h].pc = "json",
                                        ![h].token = token,
                                        ![h].choice = choice]
        /\ UNCHANGED <<app, js, running, table, disk, tally_vars>>

\* appState.castVote(token, electionId, choice) up to its first await
CallCastVote(h) ==
    LET r == castVoteStart(js, requests[h].token, 1, requests[h].choice) IN
    /\ running = "js"
    /\ requests[h].pc = "json"
    /\ js' = r.js
    /\ requests' = IF r.result = "vote"
                   THEN [requests EXCEPT ![h].pc = "build", ![h].file = 1,
                                         ![h].result = "pending"]
                   ELSE [requests EXCEPT ![h].pc = "done",
                                         ![h].result = r.result]
    /\ UNCHANGED <<app, running, table, disk, tally_vars>>

\* save() builds the rows of its next file and calls saveCSV
BuildRows(h) ==
    LET f == SaveFiles[requests[h].file] IN
    /\ running = "js"
    /\ requests[h].pc = "build"
    /\ requests' = IF f = "votes" /\ voteRowsThrow(js)
                   THEN [requests EXCEPT ![h].pc = "done",
                                         ![h].result = "TypeError"]
                   ELSE [requests EXCEPT ![h].pc = "write",
                                         ![h].rows = RowsOf(js, f)]
    /\ UNCHANGED <<app, js, running, table, disk, tally_vars>>

\* the writeFile of saveCSV completes; after state.csv castVote returns
WriteFile(h) ==
    LET f == SaveFiles[requests[h].file] IN
    /\ running = "js"
    /\ requests[h].pc = "write"
    /\ js' = [js EXCEPT !.disk[f] = requests[h].rows]
    /\ requests' = IF requests[h].file = Len(SaveFiles)
                   THEN [requests EXCEPT ![h].pc = "done", ![h].rows = <<>>,
                                         ![h].result = "vote"]
                   ELSE [requests EXCEPT ![h].pc = "build", ![h].rows = <<>>,
                                         ![h].file = @ + 1]
    /\ UNCHANGED <<app, running, table, disk, tally_vars>>

NextRequests ==
    \E h \in Requests :
        \/ ReceiveVote(h)
        \/ CallCastVote(h)
        \/ BuildRows(h)
        \/ WriteFile(h)

SpecRequests == InitRequests /\ [][NextRequests]_vars

(***************************************************************************)
(* AppState.load() when every loadCSV returns no rows (the data directory  *)
(* is empty or absent), and the sample data it then seeds.  Surveys are    *)
(* left out.                                                               *)
(***************************************************************************)
\* 'Admin', 'admin@example.com', 'admin'
SeedAdminName == <<65, 100, 109, 105, 110>>
SeedAdminEmail ==
    <<97, 100, 109, 105, 110, 64, 101, 120, 97, 109, 112, 108, 101, 46, 99,
      111, 109>>
SeedAdminPassword == <<97, 100, 109, 105, 110>>
\* 'password123'
SamplePassword == <<112, 97, 115, 115, 119, 111, 114, 100, 49, 50, 51>>

SampleVoters ==
    <<
    \* Alice Brown, alice@example.com
    [name |-> <<65, 108, 105, 99, 101, 32, 66, 114, 111, 119, 110>>,
     email |-> <<97, 108, 105, 99, 101, 64, 101, 120, 97, 109, 112, 108,
               101, 46, 99, 111, 109>>],
    \* Bob Wilson, bob@example.com
    [name |-> <<66, 111, 98, 32, 87, 105, 108, 115, 111, 110>>,
     email |-> <<98, 111, 98, 64, 101, 120, 97, 109, 112, 108, 101, 46, 99,
               111, 109>>],
    \* Carol Martinez, carol@example.com
    [name |-> <<67, 97, 114, 111, 108, 32, 77, 97, 114, 116, 105, 110, 101,
              122>>,
     email |-> <<99, 97, 114, 111, 108, 64, 101, 120, 97, 109, 112, 108,
               101, 46, 99, 111, 109>>],
    \* David Lee, david@example.com
    [name |-> <<68, 97, 118, 105, 100, 32, 76, 101, 101>>,
     email |-> <<100, 97, 118, 105, 100, 64, 101, 120, 97, 109, 112, 108,
               101, 46, 99, 111, 109>>],
    \* Emma Taylor, emma@example.com
    [name |-> <<69, 109, 109, 97, 32, 84, 97, 121, 108, 111, 114>>,
     email |-> <<101, 109, 109, 97, 64, 101, 120, 97, 109, 112, 108, 101,
               46, 99, 111, 109>>],
    \* Frank Anderson, frank@example.com
    [name |-> <<70, 114, 97, 110, 107, 32, 65, 110, 100, 101, 114, 115, 111,
              110>>,
     email |-> <<102, 114, 97, 110, 107, 64, 101, 120, 97, 109, 112, 108,
               101, 46, 99, 111, 109>>],
    \* Grace White, grace@example.com
    [name |-> <<71, 114, 97, 99, 101, 32, 87, 104, 105, 116, 101>>,
     email |-> <<103, 114, 97, 99, 101, 64, 101, 120, 97, 109, 112, 108,
               101, 46, 99, 111, 109>>],
    \* Henry Garcia, henry@example.com
    [name |-> <<72, 101, 110, 114, 121, 32, 71, 97, 114, 99, 105, 97>>,
     email |-> <<104, 101, 110, 114, 121, 64, 101, 120, 97, 109, 112, 108,
               101, 46, 99, 111, 109>>],
    \* Ivy Thompson, ivy@example.com
    [name |-> <<73, 118, 121, 32, 84, 104, 111, 109, 112, 115, 111, 110>>,
     email |-> <<105, 118, 121, 64, 101, 120, 97, 109, 112, 108, 101, 46,
               99, 111, 109>>],
    \* Jack Moore, jack@example.com
    [name |-> <<74, 97, 99, 107, 32, 77, 111, 111, 114, 101>>,
     email |-> <<106, 97, 99, 107, 64, 101, 120, 97, 109, 112, 108, 101, 46,
               99, 111, 109>>]
    >>

SampleElections ==
    <<
    \* 2023 City Council Election
    [title |-> <<50, 48, 50, 51, 32, 67, 105, 116, 121, 32, 67, 111, 117,
               110, 99, 105, 108, 32, 69, 108, 101, 99, 116, 105, 111, 110>>,
     description |->
          <<65, 110, 110, 117, 97, 108, 32, 99, 105, 116, 121, 32, 99, 111,
          117, 110, 99, 105, 108, 32, 101, 108, 101, 99, 116, 105, 111, 110,
          32, 102, 111, 114, 32, 100, 105, 115, 116, 114, 105, 99, 116, 32,
          114, 101, 112, 114, 101, 115, 101, 110, 116, 97, 116, 105, 118,
          101, 115>>,
     candidates |-> <<
          \* John Smith
          <<74, 111, 104, 110, 32, 83, 109, 105, 116, 104>>,
          \* Sarah Johnson
          <<83, 97, 114, 97, 104, 32, 74, 111, 104, 110, 115, 111, 110>>,
          \* Michael Chen
          <<77, 105, 99, 104, 97, 101, 108, 32, 67, 104, 101, 110>>,
          \* Emily Davis
          <<69, 109, 105, 108, 121, 32, 68, 97, 118, 105, 115>> >>,
     votePatterns |-> <<3, 4, 2, 1>>],
    \* 2022 Mayoral Election
    [title |-> <<50, 48, 50, 50, 32, 77, 97, 121, 111, 114, 97, 108, 32, 69,
               108, 101, 99, 116, 105, 111, 110>>,
     description |->
          <<67, 105, 116, 121, 32, 109, 97, 121, 111, 114, 97, 108, 32, 101,
          108, 101, 99, 116, 105, 111, 110, 32, 102, 111, 114, 32, 116, 101,
          114, 109, 32, 50, 48, 50, 50, 45, 50, 48, 50, 54>>,
     candidates |-> <<
          \* Robert Williams
          <<82, 111, 98, 101, 114, 116, 32, 87, 105, 108, 108, 105, 97, 109,
          115>>,
          \* Lisa Anderson
          <<76, 105, 115, 97, 32, 65, 110, 100, 101, 114, 115, 111, 110>>,
          \* James Taylor
          <<74, 97, 109, 101, 115, 32, 84, 97, 121, 108, 111, 114>> >>,
     votePatterns |-> <<5, 3, 2>>]
    >>

\* the candidate of the k-th vote of a pattern list (k from 1): count votes
\* for candidate 0, then for candidate 1, ...
RECURSIVE PatternChoices(_, _)
PatternChoices(patterns, candidate) ==
    IF patterns = <<>> THEN <<>>
    ELSE [i \in 1..Head(patterns) |-> candidate]
             \o PatternChoices(Tail(patterns), candidate + 1)

\* the vote loop of _seedSampleData from voterIndex on
RECURSIVE seedVotes(_, _, _, _)
seedVotes(j, electionId, choices, voterIndex) ==
    IF voterIndex > Len(choices) \/ voterIndex > Len(SampleVoters) THEN j
    ELSE LET voter == HashTable_get(j.userByEmail, SampleVoters[voterIndex].email)
             key == HasVotedKey(electionId, j.users[voter].id)
             vote == [id |-> j.nextVoteId, electionId |-> electionId,
                      voterId |-> j.users[voter].id,
                      choice |-> choices[voterIndex]]
         IN seedVotes(IF voter # NIL /\ ~HashTable_has(j.hasVoted, key)
                      THEN [j EXCEPT !.nextVoteId = @ + 1,
                                     !.votes = Append(@, vote),
                                     !.hasVoted = HashTable_put(@, key, TRUE)]
                      ELSE j,
                      electionId, choices, voterIndex + 1)

\* one previous election: created, set to TALLY_COMPLETE with its dates,
\* and voted in by the sample voters
seedElection(j, e) ==
    LET r == createElection(j, e.title, e.description, e.candidates)
        electionId == r.js.nextElectionId - 1
        election == HashTable_get(r.js.electionById, electionId)
    IN IF r.result # "election" THEN r.js
       ELSE seedVotes([r.js EXCEPT !.elections[election].phase = "TALLY_COMPLETE",
                                   !.elections[election].startTime = TRUE,
                                   !.elections[election].endTime = TRUE],
                      electionId, PatternChoices(e.votePatterns, 0), 1)

RECURSIVE seedVoters(_, _, _)
seedVoters(j, i, salt) ==
    IF i > Len(SampleVoters) THEN j
    ELSE seedVoters(registerUser(j, SampleVoters[i].name, SampleVoters[i].email,
                                 SamplePassword, "voter", salt).js,
                    i + 1, salt)

seedSampleData(j, salt) ==
    seedElection(seedElection(seedVoters(j, 1, salt), SampleElections[1]),
                 SampleElections[2])

load(j, salt) ==
    LET j1 == IF ~j.adminExists
              THEN registerUser(j, SeedAdminName, SeedAdminEmail,
                                SeedAdminPassword, "admin", salt).js
              ELSE j
    IN IF Len(j1.elections) = 0 THEN seedSampleData(j1, salt) ELSE j1

InitJsBoot ==
    /\ requests = NoRequests
    /\ table = NoTable
    /\ app = app_init
    /\ js = AppState
    /\ running = "js"
    /\ disk = NoFiles
    /\ counts = <<>>
    /\ tree = NoTree
    /\ win = -1
    /\ jstree = NoJsTree
    /\ jswin = -2

\* `await appState.load()` of the server start
JsLoad ==
    \E salt \in Salts :
        /\ running = "js"
        /\ js = AppState
        /\ js' = load(js, salt)
        /\ UNCHANGED <<app, running, requests, table, disk, tally_vars>>

JsBootLogin ==
    \E email \in {SeedAdminEmail, SampleVoters[1].email},
       password \in {SeedAdminPassword, SamplePassword}, pin \in Pins,
       token \in SessionTokens :
        /\ running = "js"
        /\ js # AppState
        /\ js' = login(js, email, password, pin, token).js
        /\ UNCHANGED <<app, running, requests, table, disk, tally_vars>>

NextJsBoot ==
    \/ JsLoad
    \/ JsBootLogin
    \/ JsUpdateElectionPhase
    \/ JsCastVote

SpecJsBoot == InitJsBoot /\ [][NextJsBoot]_vars

(***************************************************************************)
(* The vote export (app.c) and the CSV aggregation of the command line     *)
(* (cli.c).  A file that cannot be opened is NULL; the aggregation skips   *)
(* it.  The table counts is the hash table the aggregation fills; its      *)
(* output lines are the entries of the table, printed as election =        *)
(* key >> 32 and choice = (uint32_t)key.                                   *)
(***************************************************************************)
\* the file app_export_votes_csv writes when fopen succeeds
app_export_votes_csv(a) == VotesHeader \o Rows(VoteRow, a.votes)

\* one pass of the fgets loop of tally_from_csv_files
CsvCountLine(cnts, line) ==
    IF Len(line) >= 3 /\ SubSeq(line, 1, 3) = <<105, 100, COMMA>> THEN cnts
    ELSE LET toks == strtok(line, COMMA) IN
         IF Len(toks) < 4 THEN cnts
         ELSE LET eid == strtoull(toks[2])
                  choice == strtoull(toks[4])
                  key == ((eid * U32) % U64) + (choice % U32)
              IN IF hash_table_has(cnts, key)
                 THEN hash_table_put(cnts, key, hash_table_get(cnts, key) + 1)
                 ELSE hash_table_put(cnts, key, 1)

RECURSIVE CsvCountLines(_, _)
CsvCountLines(cnts, lines) ==
    IF lines = <<>> THEN cnts
    ELSE CsvCountLines(CsvCountLine(cnts, Head(lines)), Tail(lines))

\* the table tally_from_csv_files holds after reading the listed files
RECURSIVE CsvCountFiles(_, _)
CsvCountFiles(cnts, files) ==
    IF files = <<>> THEN cnts
    ELSE CsvCountFiles(IF Head(files) = NULL THEN cnts
                       ELSE CsvCountLines(cnts, fgets_lines(Head(files))),
                       Tail(files))

\* the lines tally_from_csv_files prints: election, choice, votes
tally_from_csv_files(files) ==
    LET cnts == CsvCountFiles(hash_table_init, files)
    IN {[election |-> key \div U32, choice |-> key % U32, votes |-> cnts[key]] :
           key \in DOMAIN cnts}

\* the elections the export runs open and vote in: the first, and the two
\* whose ids no longer fit the 32 bits the aggregation key keeps
ExportElections == U32 + 1
ExportIds == {1, U32, U32 + 1}

InitExport ==
    /\ requests = NoRequests
    /\ table = NoTable
    /\ app = app_init
    /\ js = AppState
    /\ running = "c"
    /\ disk = NoFiles
    /\ counts = <<>>
    /\ tree = NoTree
    /\ win = -1
    /\ jstree = NoJsTree
    /\ jswin = -2

ExportRegister ==
    /\ running = "c"
    /\ Len(app.users) < 1
    /\ app' = app_register_user(app, <<110>>, <<97>>, Password, ROLE_ADMIN).app
    /\ UNCHANGED <<js, running, requests, table, disk, tally_vars>>

ExportLogin ==
    /\ running = "c"
    /\ app' = app_login(app, <<97>>, Password, DefaultPin).app
    /\ UNCHANGED <<js, running, requests, table, disk, tally_vars>>

ExportCreateElection ==
    \E cands \in CandidateLists :
        /\ running = "c"
        /\ Len(app.elections) < ExportElections
        /\ cands = IF Len(app.elections) + 1 \in ExportIds
                   THEN << <<65>>, <<66>> >> ELSE << <<65>> >>
        /\ app' = app_create_election(app, <<116>>, <<100>>, cands, Len(cands)).app
        /\ UNCHANGED <<js, running, requests, table, disk, tally_vars>>

ExportOpenVoting ==
    \E id \in ExportIds :
        /\ running = "c"
        /\ app' = app_open_voting(app, id).app
        /\ UNCHANGED <<js, running, requests, table, disk, tally_vars>>

ExportCastVote ==
    \E id \in ExportIds, choice \in {0, 1} :
        /\ running = "c"
        /\ app' = app_cast_vote(app, id, choice).app
        /\ UNCHANGED <<js, running, requests, table, disk, tally_vars>>

\* "Tally from CSV files" over the one file the export wrote
ExportAndAggregate ==
    /\ running = "c"
    /\ disk' = [disk EXCEPT !.votes = app_export_votes_csv(app)]
    /\ counts' = tally_from_csv_files(<<app_export_votes_csv(app)>>)
    /\ UNCHANGED <<app, js, running, requests, table, tree, win, jstree, jswin>>

NextExport ==
    \/ ExportRegister
    \/ ExportLogin
    \/ ExportCreateElection
    \/ ExportOpenVoting
    \/ ExportCastVote
    \/ ExportAndAggregate

SpecExport == InitExport /\ [][NextExport]_vars

(***************************************************************************)
(* app_save_to_disk when fopen can fail.  unwritable is the set of files   *)
(* whose fopen(path, "w") returns NULL; such a file keeps what dir held.   *)
(***************************************************************************)
FileNames == {"state", "users", "elections", "votes"}

app_save_to_disk_in(a, dir, unwritable) ==
    LET new == app_save_to_disk(a)
        d1 == IF "state" \in unwritable THEN dir
              ELSE [dir EXCEPT !.state = new.state]
        d2 == [d1 EXCEPT !.users = new.users]
        d3 == [d2 EXCEPT !.elections = new.elections]
        d4 == [d3 EXCEPT !.votes = new.votes]
    IN IF "users" \in unwritable THEN [rc |-> -1, disk |-> d1, app |-> a]
       ELSE IF "elections" \in unwritable THEN [rc |-> -1, disk |-> d2, app |-> a]
       ELSE IF "votes" \in unwritable THEN [rc |-> -1, disk |-> d3, app |-> a]
       ELSE [rc |-> 0, disk |-> d4, app |-> a]

SaveToDisk ==
    \E unwritable \in SUBSET FileNames :
        LET r == app_save_to_disk_in(app, disk, unwritable) IN
        /\ running = "c"
        /\ app' = r.app
        /\ disk' = r.disk
        /\ UNCHANGED <<js, running, requests, table, tally_vars>>

NextSave ==
    \/ RegisterUser
    \/ Login
    \/ SaveToDisk

SpecSave == InitExport /\ [][NextSave]_vars

(***************************************************************************)
(* app_cast_vote when memory can run out.  failing names the allocations   *)
(* of the call that return NULL: the calloc of the vote record, the malloc *)
(* of the list node in list_push_back.  (has_voted is created with 64      *)
(* buckets and does not grow within the model's bounds, so its             *)
(* hash_table_put allocates nothing.)                                      *)
(***************************************************************************)
Allocations == {"calloc", "list_push_back"}

\* list_push_back(list, data) with its malloc failing or not
list_push_back_mem(list, data, fails) ==
    IF fails THEN [rc |-> -1, list |-> list]
    ELSE [rc |-> 0, list |-> list_push_back(list, data)]

app_cast_vote_mem(a, election_id, choice, failing) ==
    IF a.current_user = NIL THEN Ret(a, -1)
    ELSE LET el == find_election_by_id(a, election_id) IN
    IF el = NIL \/ a.elections[el].phase # VOTING_OPEN THEN Ret(a, -1)
    ELSE IF choice >= a.elections[el].candidate_count THEN Ret(a, -1)
    ELSE LET key == vote_key(election_id, a.users[a.current_user].id) IN
    IF hash_table_has(a.has_voted, key) THEN Ret(a, -1)
    ELSE IF "calloc" \in failing THEN Ret(a, -1)
    ELSE LET v == [id |-> a.next_vote_id,
                   election_id |-> election_id,
                   voter_id |-> a.users[a.current_user].id,
                   choice |-> choice]
         IN Ret([a EXCEPT !.next_vote_id = (@ + 1) % U64,
                          !.votes = list_push_back_mem(@, v,
                                        "list_push_back" \in failing).list,
                          !.has_voted = hash_table_put(@, key, 1)],
                0)

CastVoteMem ==
    \E id \in ElectionIds, choice \in Choices, failing \in SUBSET Allocations :
        /\ running = "c"
        /\ app' = app_cast_vote_mem(app, id, choice, failing).app
        /\ UNCHANGED <<js, running, requests, table, disk, tally_vars>>

NextMem ==
    \/ RegisterUser
    \/ Login
    \/ Logout
    \/ CreateElection
    \/ OpenVoting
    \/ CloseVoting
    \/ CastVoteMem

SpecMem == InitExport /\ [][NextMem]_vars

(***************************************************************************)
(* One hash table under any sequence of puts, deletes and gets.  A call    *)
(* whose probe loop does not end has no state after it.                    *)
(***************************************************************************)
MaxKey == 3
TableKeys == 0..MaxKey
TableValues == {1, 2}
InitCapacities == {0, 1, 2, 3}

InitTable ==
    /\ requests = NoRequests
    /\ table \in {ht_init(capacity) : capacity \in InitCapacities}
    /\ app = app_init
    /\ js = AppState
    /\ running = "c"
    /\ disk = NoFiles
    /\ counts = <<>>
    /\ tree = NoTree
    /\ win = -1
    /\ jstree = NoJsTree
    /\ jswin = -2

\* hash_table_put with every allocation succeeding
TablePut ==
    \E key \in TableKeys, value \in TableValues :
        LET r == ht_put(table, key, value, TRUE) IN
        /\ r.terminates
        /\ table' = r.ht
        /\ UNCHANGED <<app, js, running, requests, disk, tally_vars>>

\* hash_table_put whose calloc in rehash may return NULL
TablePutMem ==
    \E key \in TableKeys, value \in TableValues, alloc_ok \in BOOLEAN :
        LET r == ht_put(table, key, value, alloc_ok) IN
        /\ r.terminates
        /\ table' = r.ht
        /\ UNCHANGED <<app, js, running, requests, disk, tally_vars>>

TableDelete ==
    \E key \in TableKeys :
        LET r == ht_delete(table, key) IN
        /\ r.terminates
        /\ table' = r.ht
        /\ UNCHANGED <<app, js, running, requests, disk, tally_vars>>

TableGet ==
    \E key \in TableKeys :
        LET r == ht_get(table, key) IN
        /\ r.terminates
        /\ table' = r.ht
        /\ UNCHANGED <<app, js, running, requests, disk, tally_vars>>

NextTable ==
    \/ TablePut
    \/ TableDelete
    \/ TableGet

SpecTable == InitTable /\ [][NextTable]_vars

NextTableMem ==
    \/ TablePutMem
    \/ TableDelete
    \/ TableGet

SpecTableMem == InitTable /\ [][NextTableMem]_vars

(***************************************************************************)
(* The tally engine on its own: a count vector, the tree built from it,    *)
(* the winner read from the tree.                                          *)
(***************************************************************************)
CountVectors ==
    UNION {[1..n -> 0..MaxCount] : n \in 1..MaxLeaves} \cup {<<3, 5, 5, 2>>}

InitTally ==
    /\ requests = NoRequests
    /\ table = NoTable
    /\ app = app_init
    /\ js = AppState
    /\ running = "c"
    /\ disk = NoFiles
    /\ counts \in CountVectors
    /\ tree = NoTree
    /\ win = -1
    /\ jstree = NoJsTree
    /\ jswin = -2

Build ==
    /\ tree = NoTree
    /\ tree' = selection_tree_build(counts, Len(counts))
    /\ UNCHANGED <<engine_vars, counts, win, jstree, jswin>>

Winner ==
    /\ tree # NoTree
    /\ win' = selection_tree_winner(tree)
    /\ UNCHANGED <<engine_vars, counts, tree, jstree, jswin>>

\* new SelectionTree(counts)
JsBuild ==
    /\ jstree = NoJsTree
    /\ jstree' = SelectionTree(counts)
    /\ UNCHANGED <<engine_vars, counts, tree, win, jswin>>

\* tree.winner()
JsWinner ==
    /\ jstree # NoJsTree
    /\ jswin' = SelectionTree_winner(jstree)
    /\ UNCHANGED <<engine_vars, counts, tree, win, jstree>>

NextTally ==
    \/ Build
    \/ Winner
    \/ JsBuild
    \/ JsWinner

SpecTally == InitTally /\ [][NextTally]_vars

(***************************************************************************)
(* The C selection tree kept up to date: after the build, leaves are       *)
(* replaced one at a time with selection_tree_update.  counts follows the  *)
(* leaves the caller has written.                                          *)
(***************************************************************************)
Update ==
    \E index \in 0..(MaxLeaves + 1), value \in 0..MaxCount :
        LET r == selection_tree_update(tree, index, value) IN
        /\ tree # NoTree
        /\ tree' = r.tree
        /\ counts' = IF r.rc = 0 THEN [counts EXCEPT ![index + 1] = value]
                     ELSE counts
        /\ UNCHANGED <<engine_vars, win, jstree, jswin>>

NextUpdate ==
    \/ Build
    \/ Update
    \/ Winner

SpecUpdate == InitTally /\ [][NextUpdate]_vars

(***************************************************************************)
(* Properties.                                                             *)
(***************************************************************************)
\* the Vote records of election id in engine state a
VotesOf(a, id) == {v \in {a.votes[i] : i \in 1..Len(a.votes)} : v.election_id = id}

\* the logged-in voter has a Vote record for election id
HasVoteRecord(a, id) ==
    /\ a.current_user # NIL
    /\ \E v \in VotesOf(a, id) : v.voter_id = a.users[a.current_user].id

\* C1: the votes list never holds two Vote records with the same
\* (election_id, voter_id), and app_cast_vote by a logged-in voter who
\* already has a Vote record for the election returns -1.
C1_OneVotePerVoter ==
    /\ \A i, j \in 1..Len(app.votes) :
          (i # j) => \/ app.votes[i].election_id # app.votes[j].election_id
                     \/ app.votes[i].voter_id # app.votes[j].voter_id
    /\ \A id \in ElectionIds, choice \in Choices :
          HasVoteRecord(app, id) => app_cast_vote(app, id, choice).rc = -1

\* a voter who has voted is logged in while the election is still open
C1_Witness ==
    \E i \in 1..Len(app.elections) :
        /\ app.elections[i].phase = VOTING_OPEN
        /\ HasVoteRecord(app, app.elections[i].id)
        /\ Len(app.votes) >= 2

AllPhases == ELECTION_CREATED..TALLY_COMPLETE

\* engine state a with the phase of its i-th election set to p
WithPhase(a, i, p) == [a EXCEPT !.elections[i].phase = p]

PhaseStepAllowed(p, q) ==
    \/ p = q
    \/ p \in {ELECTION_CREATED, REGISTRATION_OPEN} /\ q = VOTING_OPEN
    \/ p = VOTING_OPEN /\ q = VOTING_CLOSED

\* C2: an app_open_voting or app_close_voting call, successful or not,
\* never moves an election's phase backwards; the only changes are
\* CREATED or REGISTRATION_OPEN to VOTING_OPEN and VOTING_OPEN to
\* VOTING_CLOSED.
C2_PhaseMonotone ==
    [][/\ (OpenVoting \/ CloseVoting) =>
             /\ Len(app'.elections) = Len(app.elections)
             /\ \A i \in 1..Len(app.elections) :
                   /\ app'.elections[i].phase >= app.elections[i].phase
                   /\ PhaseStepAllowed(app.elections[i].phase,
                                       app'.elections[i].phase)
       /\ \A i \in 1..Len(app.elections), p \in AllPhases, id \in ElectionIds :
             LET a == WithPhase(app, i, p)
                 opened == app_open_voting(a, id).app.elections[i].phase
                 closed == app_close_voting(a, id).app.elections[i].phase
             IN /\ PhaseStepAllowed(p, opened) /\ opened \in {p, VOTING_OPEN}
                /\ PhaseStepAllowed(p, closed) /\ closed \in {p, VOTING_CLOSED}
      ]_vars

\* an election went through open and close
C2_Witness ==
    \E i \in 1..Len(app.elections) : app.elections[i].phase = VOTING_CLOSED

\* C3: app_cast_vote on an election whose phase is not VOTING_OPEN returns
\* -1 and appends no Vote record; an election that is VOTING_CLOSED stays
\* VOTING_CLOSED and keeps its set of Vote records in every step.
C3_PhaseGate ==
    [][/\ \A i \in 1..Len(app.elections), p \in AllPhases \ {VOTING_OPEN},
             choice \in Choices :
             LET a == WithPhase(app, i, p)
                 r == app_cast_vote(a, a.elections[i].id, choice)
             IN r.rc = -1 /\ r.app.votes = a.votes
       /\ \A i \in 1..Len(app.elections) :
             app.elections[i].phase = VOTING_CLOSED
                => /\ app'.elections[i].phase = VOTING_CLOSED
                   /\ VotesOf(app', app.elections[i].id)
                         = VotesOf(app, app.elections[i].id)]_vars

\* a closed election that holds a vote, with a voter who has not voted in
\* it logged in
C3_Witness ==
    \E i \in 1..Len(app.elections) :
        /\ app.elections[i].phase = VOTING_CLOSED
        /\ VotesOf(app, app.elections[i].id) # {}
        /\ app.current_user # NIL
        /\ ~HasVoteRecord(app, app.elections[i].id)

\* the vote list, the has-voted index and the next vote id of the C engine
VoteState(a) == <<a.votes, a.has_voted, a.next_vote_id>>

\* the same three of the JavaScript engine
JsVoteState(j) == <<j.votes, j.hasVoted, j.nextVoteId>>

\* some precondition of app_cast_vote fails
CastVoteRefused(a, id, choice) ==
    LET el == find_election_by_id(a, id) IN
    \/ a.current_user = NIL
    \/ el = NIL
    \/ a.elections[el].phase # VOTING_OPEN
    \/ choice >= a.elections[el].candidate_count
    \/ hash_table_has(a.has_voted, vote_key(id, a.users[a.current_user].id))

\* the first failing precondition of AppState.castVote, in the listed order
FirstFailure(j, token, id, choice) ==
    LET user == HashTable_get(j.sessions, token)
        election == HashTable_get(j.electionById, id)
    IN IF user = NIL THEN "Not authenticated"
       ELSE IF election = NIL THEN "Election not found"
       ELSE IF j.elections[election].phase # "VOTING_OPEN"
            THEN "Election is not open for voting"
       ELSE IF ~(choice \in 0..(Len(j.elections[election].candidates) - 1))
            THEN "Invalid candidate choice"
       ELSE IF HasVotedKey(id, j.users[user].id) \in DOMAIN j.hasVoted
            THEN "You have already voted in this election"
       ELSE "vote"

Reloaded(a) == app_load_from_disk(app_init, app_save_to_disk(a))

Members(list) == {list[i] : i \in 1..Len(list)}
VoterValues(a) ==
    {[id |-> u.id, name |-> u.name, email |-> u.email, role |-> u.role,
      active |-> u.active] : u \in Members(a.users)}
ElectionValues(a) ==
    {[id |-> e.id, title |-> e.title, description |-> e.description,
      phase |-> e.phase,
      candidates |-> [i \in 1..e.candidate_count |-> Cand(e, i)]]
        : e \in Members(a.elections)}
VoteValues(a) ==
    {[election_id |-> v.election_id, voter_id |-> v.voter_id,
      choice |-> v.choice] : v \in Members(a.votes)}

\* C5: saving any state reachable through the engine's calls (empty name,
\* title or description included) and loading it into a fresh engine gives
\* the same Voter, Election and Vote records by value and the same three
\* next-id counters.
C5_RoundTrip ==
    LET b == Reloaded(app) IN
    /\ VoterValues(b) = VoterValues(app)
    /\ ElectionValues(b) = ElectionValues(app)
    /\ VoteValues(b) = VoteValues(app)
    /\ b.next_user_id = app.next_user_id
    /\ b.next_election_id = app.next_election_id
    /\ b.next_vote_id = app.next_vote_id

\* C6: after save and load into a fresh engine, the has-voted index holds
\* the key of every saved Vote record and app_cast_vote by that voter for
\* that election is rejected while it is VOTING_OPEN; every loaded user is
\* found through the id index and the email index, every loaded election
\* through the election id index.
C6_IndexesRebuilt ==
    LET b == Reloaded(app) IN
    /\ \A v \in Members(app.votes) :
          /\ hash_table_has(b.has_voted, vote_key(v.election_id, v.voter_id))
          /\ \A p \in 1..Len(b.users), choice \in Choices :
                LET el == find_election_by_id(b, v.election_id) IN
                (/\ b.users[p].id = v.voter_id
                 /\ el # NIL
                 /\ b.elections[el].phase = VOTING_OPEN)
                   => app_cast_vote([b EXCEPT !.current_user = p],
                                    v.election_id, choice).rc = -1
    /\ \A p \in 1..Len(b.users) :
          /\ hash_table_get(b.user_by_id, b.users[p].id) = p
          /\ hash_table_get(b.user_by_email, email_hash64(b.users[p].email)) = p
    /\ \A p \in 1..Len(b.elections) :
          hash_table_get(b.election_by_id, b.elections[p].id) = p

\* C7: in every reachable state, the state right after app_load_from_disk
\* included, each next-id counter is strictly greater than every id stored
\* in its list.
C7_CountersAboveIds ==
    /\ \A u \in Members(app.users) : u.id < app.next_user_id
    /\ \A e \in Members(app.elections) : e.id < app.next_election_id
    /\ \A v \in Members(app.votes) : v.id < app.next_vote_id

\* the engine is in the state app_load_from_disk left
JustLoaded == app # app_init /\ app = app_load_from_disk(app_init, disk)

\* users.csv holds the rows of voters 1..k in some order and state.csv is
\* absent or holds counters no greater than k + 1
SavedVoters(k) ==
    /\ \E ids \in DistinctSeqs(1..k, k) :
          Len(ids) = k /\ disk.users = UsersFile(ids)
    /\ disk.state \in {NULL} \cup {StateFile(n) : n \in 1..(k + 1)}

\* C8: with the rows of voters 1..k in users.csv in any order, the next
\* app_register_user after the load assigns id k + 1.
C8_NextIdAfterReload ==
    \A k \in 1..MaxRows :
        (JustLoaded /\ SavedVoters(k)) =>
            \A name \in Names, role \in Roles :
                LET r == app_register_user(app, name, <<100>>, Password, role)
                IN /\ r.rc = 0
                   /\ Len(r.app.users) = k + 1
                   /\ r.app.users[k + 1].id = k + 1

\* the rows of voters 2 and 1, in that order, have been loaded
C8_Witness ==
    /\ JustLoaded
    /\ SavedVoters(2)
    /\ app.users[1].id = 2
    /\ disk.state = StateFile(3)

MaxId(list) ==
    IF list = <<>> THEN 0
    ELSE CHOOSE m \in {x.id : x \in Members(list)} :
            \A x \in Members(list) : x.id <= m

\* C9: right after app_load_from_disk into a fresh engine each counter is
\* (largest loaded id of its type) + 1, and 1 for an absent or empty table,
\* whatever counters state.csv holds.
C9_CounterReset ==
    JustLoaded =>
        /\ app.next_user_id = MaxId(app.users) + 1
        /\ app.next_election_id = MaxId(app.elections) + 1
        /\ app.next_vote_id = MaxId(app.votes) + 1

\* the smallest index (from 0) holding the maximum of cs
LowestMax(cs) ==
    CHOOSE i \in 0..(Len(cs) - 1) :
        /\ \A k \in 1..Len(cs) : cs[k] <= cs[i + 1]
        /\ \A k \in 1..i : cs[k] < cs[i + 1]

\* an engine state whose election 1 has Len(cs) candidates and cs[i] votes
\* for candidate i - 1
VotesFor(cs) ==
    LET total(i) == Cardinality(UNION {{c} \X (1..cs[c]) : c \in 1..i})
        n == total(Len(cs))
    IN [v \in 1..n |->
          LET c == CHOOSE c \in 1..Len(cs) : total(c - 1) < v /\ v <= total(c)
          IN [id |-> v, election_id |-> 1, voter_id |-> v, choice |-> c - 1]]

TallyEngine(cs) ==
    [app_init EXCEPT
       !.elections = << [FileElection(1) EXCEPT
                           !.candidate_count = Len(cs),
                           !.candidates = [i \in 1..Len(cs) |-> <<65>>]] >>,
       !.election_by_id = hash_table_put(@, 1, 1),
       !.votes = VotesFor(cs)]

\* C10: for every count vector of length n >= 1, also when n is not a
\* power of two, the winner read from the built tree, the index given by
\* tally_winner and the Winner app_tally prints are the smallest index
\* holding the maximum count; [3,5,5,2] gives 1 and [0,0,0] gives 0.
C10_LowestIndexWins ==
    /\ (tree # NoTree) =>
          /\ tree.tree[1] = counts[LowestMax(counts) + 1]
          /\ selection_tree_winner(tree) = LowestMax(counts)
    /\ (win # -1) => win = LowestMax(counts)
    /\ (counts # <<>>) =>
          /\ tally_winner(counts, Len(counts)) = LowestMax(counts)
          /\ app_tally(TallyEngine(counts), 1).counts = counts
          /\ app_tally(TallyEngine(counts), 1).win = LowestMax(counts)
    /\ tally_winner(<<3, 5, 5, 2>>, 4) = 1
    /\ tally_winner(<<0, 0, 0>>, 3) = 0

\* a tie between candidates 1 and 2 among three has been decided for 1
C10_Witness ==
    /\ Len(counts) = 3
    /\ counts[1] < counts[2]
    /\ counts[2] = counts[3]
    /\ win = 1


\* the script's engine with election 1 of Len(cs) candidates and cs[i]
\* votes for candidate i - 1
JsTallyEngine(cs) ==
    [AppState EXCEPT
       !.elections = << [id |-> 1, title |-> <<116>>, description |-> <<>>,
                         candidates |-> [i \in 1..Len(cs) |-> <<65>>],
                         phase |-> "VOTING_OPEN",
                         startTime |-> TRUE, endTime |-> FALSE] >>,
       !.electionById = HashTable_put(@, 1, 1),
       !.votes = [v \in 1..Len(VotesFor(cs)) |->
                    [id |-> v, electionId |-> 1, voterId |-> v,
                     choice |-> VotesFor(cs)[v].choice]]]

\* C11: for every non-empty counts array, of any length, the index that
\* new SelectionTree(counts).winner() returns, which is the winner index of
\* AppState.tallyElection, is the lowest index holding the maximum count;
\* [3,5,5,2] gives 1 and [0,0,0] gives 0.
C11_JsLowestIndexWins ==
    /\ (jstree # NoJsTree) => SelectionTree_winner(jstree) = LowestMax(counts)
    /\ (jswin # -2) => jswin = LowestMax(counts)
    /\ (counts # <<>>) =>
          tallyElection(JsTallyEngine(counts), 1).winner.index
              = LowestMax(counts)
    /\ SelectionTree_winner(SelectionTree(<<3, 5, 5, 2>>)) = 1
    /\ SelectionTree_winner(SelectionTree(<<0, 0, 0>>)) = 0

\* the positions of the Vote records of election id, of the C engine and
\* of the script
VoteRecords(a, id) == {k \in 1..Len(a.votes) : a.votes[k].election_id = id}
JsVoteRecords(j, id) == {k \in 1..Len(j.votes) : j.votes[k].electionId = id}

\* C12: for an existing election e, in whatever phase it is, app_tally and
\* AppState.tallyElection give for each candidate index i the number of
\* Vote records with election_id = e and choice = i, the total is the
\* number of Vote records of e, the winner's count is the maximum count,
\* and the call leaves the whole engine state as it was.
C12_TallyCounts ==
    /\ \A id \in ElectionIds, p \in AllPhases :
          LET el == find_election_by_id(app, id) IN
          (el # NIL) =>
             LET a == WithPhase(app, el, p)
                 r == app_tally(a, id)
                 n == a.elections[el].candidate_count
             IN /\ r.rc = 0
                /\ r.app = a
                /\ Len(r.counts) = n
                /\ \A i \in 0..(n - 1) :
                      r.counts[i + 1] = Cardinality(
                         {k \in VoteRecords(a, id) : a.votes[k].choice = i})
                /\ Sum(r.counts) = Cardinality(VoteRecords(a, id))
                /\ (n > 0) => \A i \in 1..n :
                                 r.counts[i] <= r.counts[r.win + 1]
    /\ \A id \in ElectionIds, p \in JsPhases :
          LET el == HashTable_get(js.electionById, id) IN
          (el # NIL) =>
             LET j == [js EXCEPT !.elections[el].phase = p]
                 r == tallyElection(j, id)
                 n == Len(j.elections[el].candidates)
             IN /\ r.error = ""
                /\ r.js = j
                /\ Len(r.counts) = n
                /\ \A i \in 0..(n - 1) :
                      r.counts[i + 1] = Cardinality(
                         {k \in JsVoteRecords(j, id) : j.votes[k].choice = i})
                /\ r.totalVotes = Cardinality(JsVoteRecords(j, id))
                /\ \A i \in 1..n : r.counts[i] <= r.winner.votes

\* C13: app_open_voting on an election that is VOTING_OPEN, VOTING_CLOSED
\* or TALLY_COMPLETE, and app_close_voting on an election that is not
\* VOTING_OPEN, return -1 and leave the whole engine state as it was;
\* app_open_voting by the administrator succeeds from ELECTION_CREATED and
\* from REGISTRATION_OPEN.
C13_IllegalTransitionNoOp ==
    \A i \in 1..Len(app.elections), p \in AllPhases :
       LET a == WithPhase(app, i, p)
           id == a.elections[i].id
           opened == app_open_voting(a, id)
           closed == app_close_voting(a, id)
       IN /\ (p \in {VOTING_OPEN, VOTING_CLOSED, TALLY_COMPLETE}) =>
                opened = Ret(a, -1)
          /\ (p # VOTING_OPEN) => closed = Ret(a, -1)
          /\ (p \in {ELECTION_CREATED, REGISTRATION_OPEN}
                /\ IsAdminSession(a)) =>
                /\ opened.rc = 0
                /\ opened.app = WithPhase(a, i, VOTING_OPEN)

\* the administrator is logged in and asks to reopen a closed election
C13_Witness ==
    /\ IsAdminSession(app)
    /\ \E i \in 1..Len(app.elections) :
          /\ app.elections[i].phase = VOTING_CLOSED
          /\ app_open_voting(app, app.elections[i].id).rc = -1
          /\ app_close_voting(app, app.elections[i].id).rc = -1

JsPhaseStepAllowed(p, q) ==
    \/ p = q
    \/ p \in {"CREATED", "REGISTRATION_OPEN"} /\ q = "VOTING_OPEN"
    \/ p = "VOTING_OPEN" /\ q = "VOTING_CLOSED"

\* C14: AppState.updateElectionPhase changes an election's phase only to
\* VOTING_OPEN from CREATED or REGISTRATION_OPEN and to VOTING_CLOSED from
\* VOTING_OPEN; any other requested phase fails and changes nothing, so no
\* step of the script's engine moves a phase any other way (a VOTING_CLOSED
\* election never becomes VOTING_OPEN again).
C14_JsPhaseMachine ==
    [][/\ \A i \in 1..Len(js.elections) :
             /\ i <= Len(js'.elections)
             /\ JsPhaseStepAllowed(js.elections[i].phase,
                                   js'.elections[i].phase)
       /\ \A id \in ElectionIds, phase \in JsPhaseArgs :
             LET el == HashTable_get(js.electionById, id)
                 r == updateElectionPhase(js, id, phase)
             IN (el # NIL /\ ~JsPhaseStepAllowed(js.elections[el].phase, phase))
                   => (r.result # "success" /\ r.js = js)
      ]_vars

\* C15: app_create_election, app_open_voting and app_close_voting return 0
\* only while current_user is a logged-in ADMIN; with no session (before
\* any login, after app_logout) or with a VOTER session they return -1 and
\* leave the whole engine state, next_election_id and every phase
\* included, as it was.
C15_AdminOnly ==
    \A a \in {app, app_logout(app)} :
       /\ \A title \in Titles, desc \in Descriptions, cands \in CandidateLists :
             LET r == app_create_election(a, title, desc, cands, Len(cands))
             IN /\ (r.rc = 0) => IsAdminSession(a)
                /\ ~IsAdminSession(a) => r = Ret(a, -1)
       /\ \A id \in ElectionIds :
             LET opened == app_open_voting(a, id)
                 closed == app_close_voting(a, id)
             IN /\ (opened.rc = 0 \/ closed.rc = 0) => IsAdminSession(a)
                /\ ~IsAdminSession(a) =>
                      (opened = Ret(a, -1) /\ closed = Ret(a, -1))

\* a VOTER is logged in while an election waits to be opened
C15_Witness ==
    /\ app.current_user # NIL
    /\ app.users[app.current_user].role = ROLE_VOTER
    /\ \E i \in 1..Len(app.elections) :
          /\ app.elections[i].phase = ELECTION_CREATED
          /\ app_open_voting(app, app.elections[i].id).rc = -1

\* the positions of the ADMIN records of the users list
Admins(a) == {i \in 1..Len(a.users) : a.users[i].role = ROLE_ADMIN}

\* C16: whatever app_register_user calls were made since app_init, at most
\* one user has role ADMIN, and once an ADMIN exists every
\* app_register_user call with role ADMIN returns -1.
C16_SingleAdmin ==
    /\ Cardinality(Admins(app)) <= 1
    /\ (Admins(app) # {}) =>
          \A name \in Names, email \in Emails :
             app_register_user(app, name, email, Password, ROLE_ADMIN).rc = -1

\* an ADMIN is registered and a second ADMIN with an unused email is
\* refused
C16_Witness ==
    /\ Admins(app) # {}
    /\ \E email \in Emails :
          /\ ~hash_table_has(app.user_by_email, email_hash64(email))
          /\ app_register_user(app, <<110>>, email, Password, ROLE_ADMIN).rc
                = -1

\* C17: whatever app_register_user calls were made since app_init, no two
\* records of the users list hold the same email, character for character,
\* and registering an email that a record already holds returns -1.
C17_EmailUnique ==
    /\ \A i, k \in 1..Len(app.users) :
          (i # k) => app.users[i].email # app.users[k].email
    /\ \A email \in AllEmails, name \in Names, role \in Roles :
          (\E i \in 1..Len(app.users) : app.users[i].email = email) =>
             app_register_user(app, name, email, Password, role).rc = -1

\* what a registration may write
UserState(a) ==
    <<a.users, a.user_by_id, a.user_by_email, a.admin_exists, a.next_user_id>>

\* C18: an app_register_user call refused for a duplicate email or for a
\* second ADMIN leaves the users list, both user indexes, admin_exists and
\* next_user_id as they were; so the k-th record of the users list of an
\* engine started by app_init has id k, and the next id is one more than
\* the number of records.
C18_RejectedRegistration ==
    /\ \A name \in Names, email \in Emails, role \in Roles :
          LET r == app_register_user(app, name, email, Password, role)
              refused ==
                 \/ role = ROLE_ADMIN /\ app.admin_exists # 0
                 \/ hash_table_has(app.user_by_email, email_hash64(email))
          IN /\ (r.rc = -1) <=> refused
             /\ refused => UserState(r.app) = UserState(app)
             /\ refused => r.app = app
             /\ (r.rc = 0) =>
                   /\ Len(r.app.users) = Len(app.users) + 1
                   /\ r.app.users[Len(r.app.users)].id = Len(app.users) + 1
    /\ \A k \in 1..Len(app.users) : app.users[k].id = k
    /\ app.next_user_id = Len(app.users) + 1

\* one user is registered, a second registration with the same email is
\* refused and one with another email would get id 2
C18_Witness ==
    /\ Len(app.users) = 1
    /\ \E email \in Emails :
          /\ app.users[1].email = email
          /\ app_register_user(app, <<110>>, email, Password, ROLE_VOTER).rc
                = -1
          /\ \E other \in Emails :
                LET r == app_register_user(app, <<110>>, other, Password,
                                           ROLE_VOTER)
                IN r.rc = 0 /\ r.app.users[2].id = 2

\* the positions of the records whose stored email is email
RecordsOf(a, email) == {i \in 1..Len(a.users) : a.users[i].email = email}

\* C19: app_login returns 0 only for the email of a stored record with
\* the password that record was registered with and, when the record is an
\* ADMIN, a PIN that is not NULL and equals admin_pin; a VOTER logs in with
\* the right password and no PIN; every other call (unknown email, wrong
\* password, ADMIN without the right PIN) returns -1 and leaves
\* current_user, and the rest of the engine, as it was.  Every user of the
\* model registers with Password.
C19_LoginAndPin ==
    \A email \in AllEmails, password \in AllPasswords, pin \in Pins :
       LET r == app_login(app, email, password, pin)
           right == \E i \in RecordsOf(app, email) :
                       /\ password = Password
                       /\ (app.users[i].role = ROLE_ADMIN) =>
                             (pin # NULL /\ pin = app.admin_pin)
       IN /\ (r.rc = 0) => right
          /\ (r.rc = 0) => r.app.current_user \in RecordsOf(app, email)
          /\ (r.rc # 0) => (r.rc = -1 /\ r.app = app)
          /\ (\E i \in RecordsOf(app, email) :
                 /\ app.users[i].role = ROLE_VOTER
                 /\ password = Password
                 /\ pin = NULL) => r.rc = 0

\* C20: app_create_election called by a logged-in ADMIN with cand_count = 0
\* returns -1, stores no election and leaves next_election_id as it was,
\* and every stored election has 1 <= candidate_count <= MAX_CAND.  (With
\* cand_count > MAX_CAND the copy loop writes past el->candidates; that
\* call has no defined result to compare.)
C20_CandidateCount ==
    /\ IsAdminSession(app) =>
          \A title \in Titles, desc \in Descriptions :
             LET r == app_create_election(app, title, desc, <<>>, 0)
             IN /\ r.rc = -1
                /\ r.app.elections = app.elections
                /\ r.app.next_election_id = app.next_election_id
    /\ \A i \in 1..Len(app.elections) :
          /\ 1 <= app.elections[i].candidate_count
          /\ app.elections[i].candidate_count <= MAX_CAND

\* C21: a successful app_open_voting leaves the election with start_time
\* set (the value it had if it was set, a new stamp if it was 0) and a
\* successful app_close_voting does the same for end_time; so every election
\* that is VOTING_OPEN or VOTING_CLOSED has start_time set and every
\* election that is VOTING_CLOSED has end_time set.
C21_PhaseTimestamps ==
    /\ \A id \in ElectionIds :
          LET el == find_election_by_id(app, id)
              opened == app_open_voting(app, id)
              closed == app_close_voting(app, id)
          IN (el # NIL) =>
                /\ (opened.rc = 0) =>
                      /\ opened.app.elections[el].start_time # 0
                      /\ (app.elections[el].start_time # 0) =>
                            opened.app.elections[el].start_time
                               = app.elections[el].start_time
                /\ (closed.rc = 0) =>
                      /\ closed.app.elections[el].end_time # 0
                      /\ (app.elections[el].end_time # 0) =>
                            closed.app.elections[el].end_time
                               = app.elections[el].end_time
    /\ \A i \in 1..Len(app.elections) :
          /\ (app.elections[i].phase \in {VOTING_OPEN, VOTING_CLOSED}) =>
                app.elections[i].start_time # 0
          /\ (app.elections[i].phase = VOTING_CLOSED) =>
                app.elections[i].end_time # 0

\* C22: when app_cast_vote returns 0 the data directory, as it is when the
\* call returns, loaded into a fresh engine holds the new Vote record and
\* its has-voted key.
C22_VotePersisted ==
    \A id \in ElectionIds, choice \in Choices :
       LET r == app_cast_vote(app, id, choice)
           b == app_load_from_disk(app_init, disk)
       IN (r.rc = 0) =>
             LET v == r.app.votes[Len(r.app.votes)]
             IN /\ \E k \in 1..Len(b.votes) : b.votes[k] = v
                /\ hash_table_has(b.has_voted,
                                  vote_key(v.election_id, v.voter_id))

\* C23: after cli_run's bootstrap from any data directory the users list
\* holds at least one ADMIN record; when the loaded rows hold none, exactly
\* one ADMIN, the default administrator, has been added, whatever
\* admin_exists state.csv holds and whatever emails the loaded voters have.
C23_DefaultAdmin ==
    (app # app_init) =>
       /\ Admins(app) # {}
       /\ (Admins(app_load_from_disk(app_init, disk)) = {}) =>
             Cardinality(Admins(app)) = 1

\* a number as the files write it: one or more digits
IsNumber(s) == s # <<>> /\ \A i \in 1..Len(s) : IsDigit(s[i])

\* the fields of a row, and the rows of a table that have n fields with
\* numbers at the positions nums
Fields(line) == strtok(StripEol(line), COMMA)
WellFormedRows(file, n, nums) ==
    IF file = NULL THEN {}
    ELSE {k \in 1..Len(DataLines(file)) :
             LET f == Fields(DataLines(file)[k])
             IN Len(f) = n /\ \A i \in nums : IsNumber(f[i])}

\* the ids the well-formed rows of a table carry, and the counter they ask for
RowIds(file, n, nums) ==
    {strtoull(Fields(DataLines(file)[k])[1]) : k \in WellFormedRows(file, n, nums)}
NextIdOf(ids) ==
    IF ids = {} THEN 1 ELSE (CHOOSE m \in ids : \A x \in ids : x <= m) + 1

\* C24: after app_load_from_disk each list holds one record per well-formed
\* row of its file and none for a row with the wrong number of fields or an
\* unparsable integer, the indexes hold the entries of those records only,
\* and each counter is the largest id among the rows that parsed, plus one.
C24_MalformedRowsSkipped ==
    JustLoaded =>
       LET users == RowIds(disk.users, 7, {1, 4, 5})
           elections == RowIds(disk.elections, 6, {1, 4, 5})
           votes == RowIds(disk.votes, 4, {1, 2, 3, 4})
       IN /\ Len(app.users)
                = Cardinality(WellFormedRows(disk.users, 7, {1, 4, 5}))
          /\ {u.id : u \in Members(app.users)} = users
          /\ DOMAIN app.user_by_id = users
          /\ Len(app.elections)
                = Cardinality(WellFormedRows(disk.elections, 6, {1, 4, 5}))
          /\ {e.id : e \in Members(app.elections)} = elections
          /\ Len(app.votes)
                = Cardinality(WellFormedRows(disk.votes, 4, {1, 2, 3, 4}))
          /\ {v.id : v \in Members(app.votes)} = votes
          /\ app.next_user_id = NextIdOf(users)
          /\ app.next_election_id = NextIdOf(elections)
          /\ app.next_vote_id = NextIdOf(votes)

\* every Vote record of a names a stored election and a stored voter and
\* a candidate of that election
ReferencesHold(a) ==
    \A k \in 1..Len(a.votes) :
       /\ \E i \in 1..Len(a.users) : a.users[i].id = a.votes[k].voter_id
       /\ \E i \in 1..Len(a.elections) :
             /\ a.elections[i].id = a.votes[k].election_id
             /\ a.votes[k].choice < a.elections[i].candidate_count

\* C25: in every reachable state, and in the state app_load_from_disk builds
\* from the files app_save_to_disk writes of it, each Vote record's
\* election_id is the id of a stored election, its voter_id the id of a
\* stored voter, and its choice is below that election's candidate_count.
C25_ReferentialIntegrity ==
    /\ ReferencesHold(app)
    /\ ReferencesHold(Reloaded(app))

\* the count app_tally reports for candidate choice of election eid: none
\* when it refuses the election or the election has no such candidate
TallyCountOf(a, eid, choice) ==
    LET r == app_tally(a, eid)
    IN IF r.rc = 0 /\ choice < Len(r.counts) THEN r.counts[choice + 1] ELSE 0

\* the count the aggregation prints for the pair, none when it prints no line
CsvCountOf(lines, eid, choice) ==
    LET ls == {l \in lines : l.election = eid /\ l.choice = choice}
    IN IF ls = {} THEN 0 ELSE (CHOOSE l \in ls : TRUE).votes

\* C26: the aggregation of the file app_export_votes_csv writes prints, for
\* every (election_id, choice) pair, the count app_tally computes for that
\* candidate, and no line for a pair without a vote or for the header row.
C26_ExportRoundTrip ==
    LET lines == tally_from_csv_files(<<app_export_votes_csv(app)>>)
    IN /\ \A l \in lines : l.votes > 0
       /\ \A eid \in 0..U64Max, choice \in 0..(U32 - 1) :
             CsvCountOf(lines, eid, choice) = TallyCountOf(app, eid, choice)

\* C27: app_save_to_disk returns a failure result whenever one of the four
\* files cannot be opened for writing, and in every case leaves the lists,
\* indexes, counters and session of the engine as they were.
C27_SaveFailureReported ==
    \A unwritable \in SUBSET FileNames :
        LET r == app_save_to_disk_in(app, disk, unwritable) IN
        /\ unwritable # {} => r.rc # 0
        /\ r.app = app

\* the kind of the first test of app_cast_vote that refuses the call
CastVoteError(a, id, choice) ==
    LET el == find_election_by_id(a, id) IN
    IF a.current_user = NIL THEN "Unauthorized"
    ELSE IF el = NIL THEN "NotFound"
    ELSE IF a.elections[el].phase # VOTING_OPEN THEN "Closed"
    ELSE IF choice >= a.elections[el].candidate_count THEN "Validation"
    ELSE IF hash_table_has(a.has_voted, vote_key(id, a.users[a.current_user].id))
         THEN "Conflict"
    ELSE "None"

\* the kind of the test of app_open_voting that refuses the call
OpenVotingError(a, id) ==
    LET el == find_election_by_id(a, id) IN
    IF el = NIL THEN "NotFound"
    ELSE IF ~IsAdminSession(a) THEN "Unauthorized"
    ELSE IF a.elections[el].phase \notin {ELECTION_CREATED, REGISTRATION_OPEN}
         THEN "Conflict"
    ELSE "None"

ErrorKinds == {"Conflict", "Validation", "NotFound"}

\* C28: two calls refused for reasons of different kinds (Conflict,
\* Validation, Not Found) return different results, so that the caller can
\* tell the kinds apart.
C28_DistinguishableErrors ==
    /\ \A id1 \in ElectionIds, id2 \in ElectionIds,
          c1 \in Choices, c2 \in Choices :
          LET k1 == CastVoteError(app, id1, c1)
              k2 == CastVoteError(app, id2, c2)
          IN (k1 \in ErrorKinds /\ k2 \in ErrorKinds /\ k1 # k2)
                => app_cast_vote(app, id1, c1).rc # app_cast_vote(app, id2, c2).rc
    /\ \A id1 \in ElectionIds, id2 \in ElectionIds :
          LET k1 == OpenVotingError(app, id1)
              k2 == OpenVotingError(app, id2)
          IN (k1 \in ErrorKinds /\ k2 \in ErrorKinds /\ k1 # k2)
                => app_open_voting(app, id1).rc # app_open_voting(app, id2).rc

\* the handlers whose castVote call was made with a session of voter id
CalledBy(id) ==
    {h \in Requests : /\ requests[h].pc \notin {"idle", "json"}
                      /\ js.users[js.sessions[requests[h].token]].id = id}

\* the handlers whose castVote call appended a Vote record
Appended == {h \in Requests : requests[h].result \in {"pending", "vote", "TypeError"}}

\* C29: of the concurrent castVote calls made with sessions of one voter for
\* one election, exactly one appends a Vote record and every other returns
\* the already-voted error, whatever the interleaving of the handlers.
C29_ConcurrentVotes ==
    \A i \in 1..Len(js.users) :
        LET id == js.users[i].id
            called == CalledBy(id)
        IN called # {} =>
              /\ Cardinality(called \cap Appended) = 1
              /\ Cardinality({k \in 1..Len(js.votes) :
                                 /\ js.votes[k].voterId = id
                                 /\ js.votes[k].electionId = 1}) = 1
              /\ \A h \in called \ Appended :
                    requests[h].result = "You have already voted in this election"

\* three calls of one voter have all returned
C29_Witness ==
    /\ \A h \in Requests : requests[h].pc = "done"
    /\ \E i \in 1..Len(js.users) : CalledBy(js.users[i].id) = Requests

\* C30: once no save() is pending, users.csv, elections.csv, votes.csv and
\* state.csv hold the rows of the in-memory state.
C30_FilesConsistentWhenIdle ==
    (\A h \in Requests : requests[h].pc \in {"idle", "json", "done"})
        => js.disk = save(js).disk

\* C31: AppState.load() on an empty or absent data directory leaves the
\* state of a new engine plus the default admin: exactly one user, of role
\* admin, no elections, no votes, and next ids 2, 1 and 1.
C31_JsEmptyBootstrap ==
    \A salt \in Salts :
        LET j == load(AppState, salt) IN
        (js = j) =>
            /\ Len(j.users) = 1
            /\ j.users[1].role = "admin"
            /\ j.elections = <<>>
            /\ j.votes = <<>>
            /\ j.nextUserId = 2
            /\ j.nextElectionId = 1
            /\ j.nextVoteId = 1

\* C32: every app_cast_vote call appends the Vote record, inserts the
\* has_voted key and advances next_vote_id, or does none of the three, also
\* when an allocation fails; and the keys of has_voted are the vote_key
\* values of the stored Vote records.
C32_CastVoteIsOneUnit ==
    /\ \A id \in ElectionIds, choice \in Choices,
          failing \in SUBSET Allocations :
          LET r == app_cast_vote_mem(app, id, choice, failing)
              appended == r.app.votes # app.votes
              inserted == r.app.has_voted # app.has_voted
              advanced == r.app.next_vote_id # app.next_vote_id
          IN (appended /\ inserted /\ advanced)
                \/ (~appended /\ ~inserted /\ ~advanced)
    /\ DOMAIN app.has_voted =
          {vote_key(app.votes[k].election_id, app.votes[k].voter_id) :
              k \in 1..Len(app.votes)}

\* the positions of the used buckets holding key
UsedBuckets(t, key) ==
    {i \in 1..Len(t.buckets) : t.buckets[i].state = 1 /\ t.buckets[i].key = key}

\* the keys present in the table
KeysOf(t) ==
    {t.buckets[i].key : i \in {n \in 1..Len(t.buckets) : t.buckets[n].state = 1}}

\* the map the table stands for: each present key with the value of its
\* first used bucket
MapOf(t) ==
    [k \in KeysOf(t) |->
        t.buckets[CHOOSE i \in UsedBuckets(t, k) :
                     \A n \in UsedBuckets(t, k) : i <= n].value]

MapPut(m, key, value) ==
    [k \in DOMAIN m \cup {key} |-> IF k = key THEN value ELSE m[k]]

MapDelete(m, key) == [k \in DOMAIN m \ {key} |-> m[k]]

\* put, get and delete of t act on MapOf(t) as on a map
ActsAsMap(t) ==
    /\ \A key \in TableKeys :
          LET r == ht_get(t, key) IN
          /\ r.terminates
          /\ IF key \in KeysOf(t)
             THEN r.rc = 0 /\ r.value = MapOf(t)[key]
             ELSE r.rc = -1
    /\ \A key \in TableKeys, value \in TableValues :
          LET r == ht_put(t, key, value, TRUE) IN
          /\ r.terminates
          /\ r.rc = 0
          /\ MapOf(r.ht) = MapPut(MapOf(t), key, value)
    /\ \A key \in TableKeys :
          LET r == ht_delete(t, key) IN
          /\ r.terminates
          /\ IF key \in KeysOf(t)
             THEN r.rc = 0 /\ MapOf(r.ht) = MapDelete(MapOf(t), key)
             ELSE r.rc = -1 /\ r.ht = t

\* C33: the table refines a map: get returns the value last put for a key
\* that was not deleted since and -1 otherwise, delete of an absent key
\* returns -1, no key occupies two used buckets, and size is the number of
\* keys present, across rehash and tombstones (allocations succeeding).
C33_TableRefinesMap ==
    /\ ActsAsMap(table)
    /\ \A key \in TableKeys : Cardinality(UsedBuckets(table, key)) <= 1
    /\ table.size = Cardinality(KeysOf(table))

\* every call on t ends
Terminates(t) ==
    /\ \A key \in TableKeys : ht_get(t, key).terminates
    /\ \A key \in TableKeys : ht_delete(t, key).terminates
    /\ \A key \in TableKeys, value \in TableValues :
          ht_put(t, key, value, TRUE).terminates

\* C34: in every table state reachable by puts and deletes, each of put, get
\* and delete terminates: its probe loop reaches an empty bucket or the key.
C34_TableCallsTerminate == Terminates(table)

\* C35: a hash_table_put whose rehash cannot allocate returns -1 and leaves
\* the table as it was: buckets, capacity and size.
C35_FailedGrowthNoEffect ==
    \A key \in TableKeys, value \in TableValues :
        LET r == ht_put(table, key, value, FALSE) IN
        (r.rc = -1) => r.ht = table

RECURSIVE IsPow2(_)
IsPow2(n) == n = 1 \/ (n > 1 /\ n % 2 = 0 /\ IsPow2(n \div 2))

\* C36: the capacity is a power of two, changes only by doubling inside
\* hash_table_put before the insert, doubling keeps every stored pair, and
\* after a successful put size * 10 < capacity * 7.
C36_LoadFactor ==
    /\ IsPow2(table.capacity)
    /\ \A key \in TableKeys :
          /\ ht_get(table, key).ht.capacity = table.capacity
          /\ ht_delete(table, key).ht.capacity = table.capacity
    /\ MapOf(maybe_grow(table, TRUE).ht) = MapOf(table)
    /\ \A key \in TableKeys, value \in TableValues :
          LET r == ht_put(table, key, value, TRUE) IN
          /\ r.ht.capacity = maybe_grow(table, TRUE).ht.capacity
          /\ r.ht.capacity \in {table.capacity, 2 * table.capacity}
          /\ (r.terminates /\ r.rc = 0) => r.ht.size * 10 < r.ht.capacity * 7

\* a table holding pairs whose next put doubles the capacity
C36_Witness ==
    /\ table.size > 1
    /\ \E key \in TableKeys :
          ht_put(table, key, 1, TRUE).ht.capacity = 2 * table.capacity

RECURSIVE BitOr(_, _)
BitOr(a, b) ==
    IF a = 0 THEN b
    ELSE IF b = 0 THEN a
    ELSE Max(a % 2, b % 2) + 2 * BitOr(a \div 2, b \div 2)

\* the ids of the records the engine holds
HeldUserIds(a) == {a.users[i].id : i \in 1..Len(a.users)}
HeldElectionIds(a) == {a.elections[i].id : i \in 1..Len(a.elections)}

\* C37: vote_key(election_id, voter_id) is (election_id << 32) | voter_id in
\* 64-bit arithmetic and distinct for distinct pairs of ids the engine
\* holds, so that app_cast_vote is refused as already voted only when the
\* logged-in voter has a vote in that election.
C37_VoteKeysDistinct ==
    /\ \A e \in HeldElectionIds(app), v \in HeldUserIds(app) :
          vote_key(e, v) = BitOr((e * U32) % U64, v)
    /\ \A e1, e2 \in HeldElectionIds(app), v1, v2 \in HeldUserIds(app) :
          (<<e1, v1>> # <<e2, v2>>) => vote_key(e1, v1) # vote_key(e2, v2)
    /\ \A e \in HeldElectionIds(app) :
          (app.current_user # NIL /\ ~HasVoteRecord(app, e))
              => CastVoteError(app, e, 0) # "Conflict"

\* the largest of the counts cs
MaxOf(cs) ==
    CHOOSE m \in {cs[i] : i \in 1..Len(cs)} : \A i \in 1..Len(cs) : cs[i] <= m

\* C38: after selection_tree_build and any updates with index < leaf_count
\* every internal node holds the maximum of its two children, the root the
\* maximum of the current leaves, and selection_tree_winner the lowest
\* index of that maximum, as a tree rebuilt from the updated counts does;
\* an update with index >= leaf_count returns -1 and changes nothing.
C38_UpdateKeepsTree ==
    (tree # NoTree) =>
        /\ \A i \in 1..((tree.tree_size \div 2) - 1) :
              tree.tree[i] = Max(tree.tree[2 * i], tree.tree[(2 * i) + 1])
        /\ \A i \in 0..(tree.leaf_count - 1) :
              tree.tree[(tree.tree_size \div 2) + i] = counts[i + 1]
        /\ tree.tree[1] = MaxOf(counts)
        /\ selection_tree_winner(tree) = LowestMax(counts)
        /\ tree = selection_tree_build(counts, Len(counts))
        /\ \A index \in 0..(MaxLeaves + 1), value \in 0..MaxCount :
              LET r == selection_tree_update(tree, index, value) IN
              IF index >= tree.leaf_count
              THEN r.rc = -1 /\ r.tree = tree
              ELSE /\ r.rc = 0
                   /\ r.tree = selection_tree_build(
                                   [counts EXCEPT ![index + 1] = value],
                                   Len(counts))

\* the winner was read, and updates have since moved it to a later leaf of
\* a tree of four leaves
C38_Witness ==
    /\ tree # NoTree
    /\ tree.leaf_count = 4
    /\ win = 0
    /\ selection_tree_winner(tree) = 3

\* the emails of the model that fit user_rec_t.email
FittingEmails == {email \in AllEmails : Len(email) <= EMAIL_LEN - 1}

\* C39: a hit in user_by_email denotes the record whose stored email equals
\* the queried email: app_register_user rejects as duplicate only an email
\* that is stored, and app_login authenticates against the record of the
\* supplied email, also for distinct emails of equal email_hash64.
C39_EmailHitsExact ==
    \A email \in FittingEmails :
        /\ hash_table_has(app.user_by_email, email_hash64(email)) =>
              app.users[hash_table_get(app.user_by_email,
                                       email_hash64(email))].email = email
        /\ (\A i \in 1..Len(app.users) : app.users[i].email # email) =>
              app_register_user(app, <<110>>, email, Password, ROLE_VOTER).rc = 0
        /\ \A password \in AllPasswords, pin \in Pins :
              LET r == app_login(app, email, password, pin) IN
              (r.rc = 0) => r.app.users[r.app.current_user].email = email

\* C40: after app_save_to_disk and app_load_from_disk into a fresh engine no
\* user registered as VOTER has role ADMIN, and there are as many ADMIN
\* records as before, for all registered field values (empty name included).
C40_RolesSurviveReload ==
    LET b == Reloaded(app) IN
    /\ \A i \in 1..Len(app.users), k \in 1..Len(b.users) :
          (app.users[i].role = ROLE_VOTER /\ b.users[k].id = app.users[i].id)
              => b.users[k].role # ROLE_ADMIN
    /\ Cardinality(Admins(b)) = Cardinality(Admins(app))
=============================================================================
